---- MODULE Spec2Model ----
(***************************************************************************)
(* Model of the llms-text-maker extraction pipeline: the three source      *)
(* extractors, the merge, the classifier, the cleaning step, the quality   *)
(* score of the extract endpoint and the quality gate of the generate      *)
(* endpoint.                                                               *)
(*                                                                         *)
(* A JavaScript string is modelled as a sequence of one-character strings, *)
(* so that toLowerCase, includes, split, trim and join are computed on the *)
(* characters.  Strings of the model contain no line terminators.          *)
(***************************************************************************)
EXTENDS Integers, Sequences, FiniteSets, TLC

\* ---------------------------------------------------------------- values
\* The JavaScript value undefined (also what reading a missing property gives).
Undefined == <<"undefined">>

\* An object key that is not an own property (it is skipped by object spread).
Absent == <<"absent">>

\* JavaScript truthiness of a string-or-undefined value.
Truthy(v) == v # Undefined /\ v # Absent /\ v # <<>>

\* a || b with the fallback left out
OrElseFirst(a, b) == a

\* a || b
OrElse(a, b) == IF Truthy(a) THEN a ELSE b

\* Reading a property: an absent key reads as undefined.
Read(v) == IF v = Absent THEN Undefined ELSE v

Min(a, b) == IF a <= b THEN a ELSE b

\* ---------------------------------------------------------------- strings
UpperCase == <<"A","B","C","D","E","F","G","H","I","J","K","L","M",
               "N","O","P","Q","R","<<",">>T","U","V","W","X","Y","Z">>
LowerCase == <<"a","b","c","d","e","f","g","h","i","j","k","l","m",
               "n","o","p","q","r","s","t","u","v","w","x","y","z">>

ToLowerChar(c) ==
  IF \E i \in 1..26 : UpperCase[i] = c
  THEN LowerCase[CHOOSE i \in 1..26 : UpperCase[i] = c]
  ELSE c

\* String.prototype.toLowerCase
ToLowerCase(s) == [i \in 1..Len(s) |-> ToLowerChar(s[i])]

\* String.prototype.includes
Includes(text, term) ==
  \E i \in 0..(Len(text) - Len(term)) : SubSeq(text, i + 1, i + Len(term)) = term

\* A line feed: white space for \s and trim, and a line terminator, which
\* '.' does not match.
LF == "\n"

IsLineTerminator(c) == c = LF

IsSpace(c) == c = " " \/ IsLineTerminator(c)

\* String.prototype.trim
RECURSIVE TrimStart(_)
TrimStart(s) == IF s # <<>> /\ IsSpace(Head(s)) THEN TrimStart(Tail(s)) ELSE s

RECURSIVE TrimEnd(_)
TrimEnd(s) ==
  IF s # <<>> /\ IsSpace(s[Len(s)]) THEN TrimEnd(SubSeq(s, 1, Len(s) - 1)) ELSE s

Trim(s) == TrimEnd(TrimStart(s))

\* Array.prototype.join(sep) over strings; undefined elements join as ''.
RECURSIVE Join(_, _)
Join(parts, sep) ==
  IF parts = <<>> THEN <<>>
  ELSE LET h == IF Head(parts) = Undefined THEN <<>> ELSE Head(parts)
       IN IF Len(parts) = 1 THEN h ELSE h \o sep \o Join(Tail(parts), sep)

\* [...new Set(xs)]: a Set keeps the insertion order of first occurrences.
RECURSIVE SetSpread(_)
SetSpread(xs) ==
  IF xs = <<>> THEN <<>>
  ELSE LET init == SetSpread(SubSeq(xs, 1, Len(xs) - 1))
           last == xs[Len(xs)]
       IN IF \E i \in 1..Len(init) : init[i] = last THEN init ELSE Append(init, last)

\* ---------------------------------------------------------------- constants
\* EXCLUDED_CONTENT
EXCLUDED_CONTENT ==
  << <<"p","r","i","c","i","n","g">>, <<"p","r","i","c","e">>, <<"c","o","s","t">>, <<"f","e","e">>, <<"p","a","y","m","e","n","t">>, <<"c","r","e","d","i","t"," ","c","a","r","d">>,
     <<"a","p","i"," ","k","e","y">>, <<"p","a","s","s","w","o","r","d">>, <<"s","e","c","r","e","t">>, <<"p","r","i","v","a","t","e">>, <<"c","o","n","f","i","d","e","n","t","i","a","l">> >>

\* BUSINESS_TYPE_KEYWORDS
BUSINESS_TYPE_KEYWORDS ==
  [ catalog |-> << <<"m","a","r","k","e","t","p","l","a","c","e">>, <<"p","l","a","t","f","o","r","m">>, <<"d","i","r","e","c","t","o","r","y">>, <<"l","i","s","t","i","n","g">>,
                   <<"c","a","t","a","l","o","g">>, <<"d","a","t","a","b","a","s","e">> >>,
    specialist |-> << <<"a","g","e","n","c","y">>, <<"c","o","n","s","u","l","t","a","n","t">>, <<"e","x","p","e","r","t">>, <<"s","p","e","c","i","a","l","i","s","t">>,
                      <<"p","r","o","f","e","s","s","i","o","n","a","l">>, <<"s","e","r","v","i","c","e">> >>,
    ecosystem |-> << <<"s","u","i","t","e">>, <<"e","c","o","s","y","s","t","e","m">>, <<"i","n","t","e","g","r","a","t","e","d">>, <<"a","l","l","-","i","n","-","o","n","e">>,
                     <<"c","o","m","p","l","e","t","e"," ","s","o","l","u","t","i","o","n">> >> ]

\* containsExcludedContent, with a case-sensitive comparison
containsExcludedContentCaseSensitive(text) ==
  \E i \in 1..Len(EXCLUDED_CONTENT) : Includes(text, EXCLUDED_CONTENT[i])

\* containsExcludedContent
containsExcludedContent(text) ==
  LET lowerText == ToLowerCase(text)
  IN \E i \in 1..Len(EXCLUDED_CONTENT) : Includes(lowerText, EXCLUDED_CONTENT[i])

\* ---------------------------------------------------------------- helpers
\* formatAddress: the truthy sub-fields joined by ', '.
formatAddress(address) ==
  LET parts == << address.streetAddress, address.addressLocality,
                  address.addressRegion, address.postalCode,
                  address.addressCountry >>
  IN Join(SelectSeq(parts, Truthy), <<","," ">>)

\* The platforms table of identifySocialPlatform, in its iteration order.
platforms ==
  << [domain |-> <<"f","a","c","e","b","o","o","k",".","c","o","m">>,  platform |-> "facebook"],
     [domain |-> <<"t","w","i","t","t","e","r",".","c","o","m">>,   platform |-> "twitter"],
     [domain |-> <<"x",".","c","o","m">>,         platform |-> "twitter"],
     [domain |-> <<"l","i","n","k","e","d","i","n",".","c","o","m">>,  platform |-> "linkedin"],
     [domain |-> <<"i","n","s","t","a","g","r","a","m",".","c","o","m">>, platform |-> "instagram"],
     [domain |-> <<"y","o","u","t","u","b","e",".","c","o","m">>,   platform |-> "youtube"],
     [domain |-> <<"g","i","t","h","u","b",".","c","o","m">>,    platform |-> "github"] >>

PlatformNames == { platforms[i].platform : i \in 1..Len(platforms) }

\* identifySocialPlatform: the first table entry whose domain occurs in the
\* url, or "null".
identifySocialPlatform(url) ==
  IF \E i \in 1..Len(platforms) : Includes(url, platforms[i].domain)
  THEN LET first == CHOOSE i \in 1..Len(platforms) :
                      /\ Includes(url, platforms[i].domain)
                      /\ \A j \in 1..(i - 1) : ~Includes(url, platforms[j].domain)
       IN platforms[first].platform
  ELSE "null"

\* Whether [-|]\s*.*$ matches name from index j: a dash or pipe, then white
\* space, then characters other than line terminators up to the end of input.
SeparatorMatchesAt(name, j) ==
  /\ name[j] \in {"-", "|"}
  /\ LET rest == TrimStart(SubSeq(name, j + 1, Len(name)))
     IN \A k \in 1..Len(rest) : ~IsLineTerminator(rest[k])

\* name.replace(/\s*[-|]\s*.*$/, ''): the leftmost match starts at the
\* white-space run in front of the first dash or pipe from which the pattern
\* reaches the end of input, and runs to the end.
RemoveAfterSeparator(name) ==
  IF \E j \in 1..Len(name) : SeparatorMatchesAt(name, j)
  THEN LET sep == CHOOSE j \in 1..Len(name) :
                    /\ SeparatorMatchesAt(name, j)
                    /\ \A k \in 1..(j - 1) : ~SeparatorMatchesAt(name, k)
       IN TrimEnd(SubSeq(name, 1, sep - 1))
  ELSE name

LegalSuffixes == { <<"i","n","c">>, <<"l","l","c">>, <<"l","t","d">>, <<"c","o","r","p","o","r","a","t","i","o","n">>, <<"c","o","r","p">> }

\* Whether /\s+(Inc|LLC|Ltd|Corporation|Corp)\.?$/i matches name from index i.
LegalSuffixMatchesAt(name, i) ==
  /\ IsSpace(name[i])
  /\ LET rest == ToLowerCase(TrimStart(SubSeq(name, i, Len(name))))
     IN \E suffix \in LegalSuffixes : rest = suffix \/ rest = suffix \o <<".">>

\* name.replace(/\s+(Inc|LLC|Ltd|Corporation|Corp)\.?$/i, '')
RemoveLegalSuffix(name) ==
  IF \E i \in 1..Len(name) : LegalSuffixMatchesAt(name, i)
  THEN LET start == CHOOSE i \in 1..Len(name) :
                      /\ LegalSuffixMatchesAt(name, i)
                      /\ \A k \in 1..(i - 1) : ~LegalSuffixMatchesAt(name, k)
       IN SubSeq(name, 1, start - 1)
  ELSE name

\* cleanCompanyName
cleanCompanyName(name) == Trim(RemoveLegalSuffix(RemoveAfterSeparator(name)))

\* ---------------------------------------------------------------- profiles
NoSocialMedia == [p \in PlatformNames |-> Absent]

\* contactInfo: {} ; socialMedia.present tells whether the key is set.
EmptyContactInfo ==
  [ email |-> Absent, phone |-> Absent, address |-> Absent,
    socialMedia |-> [present |-> FALSE, links |-> NoSocialMedia] ]

\* A (partial) ExtractedData.  keys is the set of own properties, as
\* Object.entries sees them; a scalar that is not set holds Undefined.
EmptyProfile ==
  [ keys |-> {}, companyName |-> Undefined, tagline |-> Undefined,
    description |-> Undefined, mission |-> Undefined, apiDocs |-> Undefined,
    services |-> <<>>, products |-> <<>>, teamInfo |-> <<>>,
    contactInfo |-> EmptyContactInfo, schemaData |-> <<>>,
    businessType |-> "undefined" ]

\* ------------------------------------------------- extractFromStructuredData
OrganizationTypes == {"Organization", "Corporation", "LocalBusiness"}

\* A property holding a list, a single object, or nothing.
IsSet(field) == field.shape # "absent"

\* The initial value of extracted in extractFromStructuredData.
StructuredInitial ==
  [EmptyProfile EXCEPT !.keys = {"services", "products", "contactInfo", "teamInfo"}]

\* The TypeErrors one forEach iteration of extractFromStructuredData raises.
RecordThrows(jsonLd) ==
  \/ jsonLd.isNull
  \/ /\ jsonLd.type \in OrganizationTypes
     /\ jsonLd.contactPoint.shape = "array"
     /\ jsonLd.contactPoint.items = <<>>
  \/ /\ jsonLd.type = "Service" \/ IsSet(jsonLd.hasOfferCatalog)
     /\ jsonLd.hasOfferCatalog.itemListElement.shape = "object"
  \/ /\ IsSet(jsonLd.employee) \/ IsSet(jsonLd.founder)
     /\ jsonLd.employee.shape = "object" \/ jsonLd.founder.shape = "object"

\* socialMedia after the sameAs loop: later urls of a platform overwrite.
RECURSIVE SameAsLinks(_, _)
SameAsLinks(links, urls) ==
  IF urls = <<>> THEN links
  ELSE LET platform == identifySocialPlatform(Head(urls))
       IN SameAsLinks(IF platform # "null"
                      THEN [links EXCEPT ![platform] = Head(urls)]
                      ELSE links,
                      Tail(urls))

\* Company information, contact point, address and sameAs of an
\* Organization-like record.
ExtractOrganization(extracted, jsonLd) ==
  LET named == [extracted EXCEPT
                  !.keys = @ \cup {"companyName", "description", "tagline"},
                  !.companyName = OrElse(jsonLd.name, extracted.companyName),
                  !.description = OrElse(jsonLd.description, extracted.description),
                  !.tagline = OrElse(jsonLd.slogan, extracted.tagline)]
      contact == jsonLd.contactPoint.items[1]
      c1 == IF IsSet(jsonLd.contactPoint)
            THEN [named.contactInfo EXCEPT
                    !.email = OrElse(contact.email, Read(named.contactInfo.email)),
                    !.phone = OrElse(contact.telephone, Read(named.contactInfo.phone))]
            ELSE named.contactInfo
      c2 == IF jsonLd.address.present
            THEN [c1 EXCEPT !.address = formatAddress(jsonLd.address)]
            ELSE c1
      c3 == IF jsonLd.sameAs.shape = "array"
            THEN [c2 EXCEPT !.socialMedia =
                    [present |-> TRUE,
                     links |-> SameAsLinks(NoSocialMedia, jsonLd.sameAs.items)]]
            ELSE c2
  IN [named EXCEPT !.contactInfo = c3]

\* The names of the entries that have a name free of excluded content.
AllowedName(entry) == Truthy(entry.name) /\ ~containsExcludedContent(entry.name)

NamesOf(entries) ==
  LET kept == SelectSeq(entries, AllowedName)
  IN [i \in 1..Len(kept) |-> kept[i].name]

HasName(person) == Truthy(person.name)

\* `${person.name} - ${role}` with the role property read before the job title
TeamStringRoleFirst(person) ==
  person.name \o <<" ","-"," ">> \o OrElse(OrElse(person.role, person.jobTitle), <<"T","e","a","m"," ","M","e","m","b","e","r">>)

\* `${person.name} - ${role}`
TeamString(person) ==
  person.name \o <<" ","-"," ">> \o OrElse(OrElse(person.jobTitle, person.role), <<"T","e","a","m"," ","M","e","m","b","e","r">>)

TeamStrings(people) ==
  LET named == SelectSeq(people, HasName)
  IN [i \in 1..Len(named) |-> TeamString(named[i])]

\* One iteration of jsonLdArray.forEach, for a record that does not throw.
ExtractRecord(extracted, jsonLd) ==
  LET e1 == IF jsonLd.type \in OrganizationTypes
            THEN ExtractOrganization(extracted, jsonLd)
            ELSE extracted
      e2 == IF jsonLd.type = "Product" \/ IsSet(jsonLd.makesOffer)
            THEN [e1 EXCEPT !.products = @ \o NamesOf(jsonLd.makesOffer.items)]
            ELSE e1
      e3 == IF jsonLd.type = "Service" \/ IsSet(jsonLd.hasOfferCatalog)
            THEN [e2 EXCEPT !.services =
                    @ \o NamesOf(jsonLd.hasOfferCatalog.itemListElement.items)]
            ELSE e2
  IN IF IsSet(jsonLd.employee) \/ IsSet(jsonLd.founder)
     THEN [e3 EXCEPT !.teamInfo =
             @ \o TeamStrings(jsonLd.employee.items \o jsonLd.founder.items)]
     ELSE e3

\* ------------------------------------------------------- extractFromMetaTags
\* The first truthy value among the given tags, or Undefined.
RECURSIVE FirstTruthy(_)
FirstTruthy(values) ==
  IF values = <<>> THEN Undefined
  ELSE IF Truthy(Head(values)) THEN Head(values) ELSE FirstTruthy(Tail(values))

extractFromMetaTags(metaTags) ==
  LET descriptionKeys == << metaTags.description, metaTags.ogDescription,
                            metaTags.twitterDescription >>
      titleKeys == << metaTags.ogSiteName, metaTags.applicationName,
                      metaTags.title, metaTags.ogTitle >>
      description == FirstTruthy(descriptionKeys)
      title == FirstTruthy(titleKeys)
      companyName == IF title # Undefined THEN cleanCompanyName(title) ELSE Undefined
      hasTagline == Truthy(metaTags.twitterTitle) /\ metaTags.twitterTitle # companyName
  IN [EmptyProfile EXCEPT
        !.keys = {"services", "products", "contactInfo"}
                   \cup (IF description # Undefined THEN {"description"} ELSE {})
                   \cup (IF title # Undefined THEN {"companyName"} ELSE {})
                   \cup (IF hasTagline THEN {"tagline"} ELSE {}),
        !.description = description,
        !.companyName = companyName,
        !.tagline = IF hasTagline THEN metaTags.twitterTitle ELSE Undefined]

\* --------------------------------------------------------- extractFromContent
\* s.split(/[,;]/)
RECURSIVE Split(_)
Split(s) ==
  IF \E i \in 1..Len(s) : s[i] \in {",", ";"}
  THEN LET cut == CHOOSE i \in 1..Len(s) :
                    /\ s[i] \in {",", ";"}
                    /\ \A k \in 1..(i - 1) : s[k] \notin {",", ";"}
       IN <<SubSeq(s, 1, cut - 1)>> \o Split(SubSeq(s, cut + 1, Len(s)))
  ELSE <<s>>

\* The filter on the email matches: no consumer webmail, and a contact word.
IsContactEmail(email) ==
  /\ ~Includes(email, <<"@","g","m","a","i","l",".">>)
  /\ ~Includes(email, <<"@","y","a","h","o","o",".">>)
  /\ ~Includes(email, <<"@","h","o","t","m","a","i","l",".">>)
  /\ \/ Includes(email, <<"c","o","n","t","a","c","t">>)
     \/ Includes(email, <<"i","n","f","o">>)
     \/ Includes(email, <<"s","u","p","p","o","r","t">>)
     \/ Includes(email, <<"s","a","l","e","s">>)

\* The filter with only the first denylist term tested
NotExcludedByFirstTerm(s) == ~Includes(ToLowerCase(s), EXCLUDED_CONTENT[1])

NotExcluded(s) == ~containsExcludedContent(s)

\* Whether /href="([^"]*(?:api|developer|docs)[^"]*)"[^>]*>([^<]+)</gi matches
\* an anchor: its href mentions a keyword and a non-empty label follows.
ApiLinkMatches(anchor) ==
  /\ \E word \in {<<"a","p","i">>, <<"d","e","v","e","l","o","p","e","r">>, <<"d","o","c","s">>} :
       Includes(ToLowerCase(anchor.href), word)
  /\ anchor.label # <<>>

\* text carries what the regular expressions find in textContent and html:
\* emails and phones are the results of match(REGEX_PATTERNS.EMAIL / PHONE),
\* servicesMatch and missionMatch are capture group 1 (Undefined: no match),
\* anchors are the anchors of the markup.
extractFromContent(text) ==
  LET contactEmails == SelectSeq(text.emails, IsContactEmail)
      servicesList == [i \in 1..Len(Split(text.servicesMatch)) |->
                         Trim(Split(text.servicesMatch)[i])]
      apiMatch == \E i \in 1..Len(text.anchors) : ApiLinkMatches(text.anchors[i])
  IN [EmptyProfile EXCEPT
        !.keys = {"services", "products", "contactInfo", "teamInfo"}
                   \cup (IF text.missionMatch # Undefined THEN {"mission"} ELSE {})
                   \cup (IF apiMatch THEN {"apiDocs"} ELSE {}),
        !.contactInfo =
           [EmptyContactInfo EXCEPT
              !.email = IF contactEmails # <<>> THEN contactEmails[1] ELSE Absent,
              !.phone = IF text.phones # <<>> THEN text.phones[1] ELSE Absent],
        !.services = IF text.servicesMatch # Undefined
                     THEN SelectSeq(servicesList, NotExcluded)
                     ELSE <<>>,
        !.mission = IF text.missionMatch # Undefined
                    THEN Trim(text.missionMatch)
                    ELSE Undefined,
        !.apiDocs = IF apiMatch THEN <<"A","P","I"," ","d","o","c","u","m","e","n","t","a","t","i","o","n"," ","a","v","a","i","l","a","b","l","e">> ELSE Undefined]

\* --------------------------------------------------------- mergeExtractedData
\* The initial value of merged.
MergedInitial ==
  [EmptyProfile EXCEPT !.keys = {"services", "products", "contactInfo", "teamInfo"}]

\* { ...a, ...b } on contact records: every own key of b replaces a's.
SpreadContact(a, b) ==
  [ email |-> IF b.email # Absent THEN b.email ELSE a.email,
    phone |-> IF b.phone # Absent THEN b.phone ELSE a.phone,
    address |-> IF b.address # Absent THEN b.address ELSE a.address,
    socialMedia |-> IF b.socialMedia.present THEN b.socialMedia ELSE a.socialMedia ]

\* A primitive of the source is assigned unless it is undefined.
MergeScalar(old, source, key, value) ==
  IF key \in source.keys /\ value # Undefined THEN value ELSE old

\* Arrays are concatenated and de-duplicated, without the Set
MergeArrayKeepingDuplicates(old, source, key, value) ==
  IF key \in source.keys THEN old \o value ELSE old

\* Arrays are concatenated and de-duplicated through a Set.
MergeArray(old, source, key, value) ==
  IF key \in source.keys THEN SetSpread(old \o value) ELSE old

\* The body of dataSources.forEach with schemaData merged like the other arrays
MergeSourceDeduplicatingRecords(merged, source) ==
  [ keys |-> merged.keys \cup source.keys,
    companyName |-> MergeScalar(merged.companyName, source, "companyName", source.companyName),
    tagline |-> MergeScalar(merged.tagline, source, "tagline", source.tagline),
    description |-> MergeScalar(merged.description, source, "description", source.description),
    mission |-> MergeScalar(merged.mission, source, "mission", source.mission),
    apiDocs |-> MergeScalar(merged.apiDocs, source, "apiDocs", source.apiDocs),
    services |-> MergeArray(merged.services, source, "services", source.services),
    products |-> MergeArray(merged.products, source, "products", source.products),
    teamInfo |-> MergeArray(merged.teamInfo, source, "teamInfo", source.teamInfo),
    contactInfo |-> IF "contactInfo" \in source.keys
                    THEN SpreadContact(merged.contactInfo, source.contactInfo)
                    ELSE merged.contactInfo,
    schemaData |-> MergeArray(merged.schemaData, source, "schemaData", source.schemaData),
    businessType |-> merged.businessType ]

\* The body of dataSources.forEach for one source.
MergeSource(merged, source) ==
  [ keys |-> merged.keys \cup source.keys,
    companyName |-> MergeScalar(merged.companyName, source, "companyName", source.companyName),
    tagline |-> MergeScalar(merged.tagline, source, "tagline", source.tagline),
    description |-> MergeScalar(merged.description, source, "description", source.description),
    mission |-> MergeScalar(merged.mission, source, "mission", source.mission),
    apiDocs |-> MergeScalar(merged.apiDocs, source, "apiDocs", source.apiDocs),
    services |-> MergeArray(merged.services, source, "services", source.services),
    products |-> MergeArray(merged.products, source, "products", source.products),
    teamInfo |-> MergeArray(merged.teamInfo, source, "teamInfo", source.teamInfo),
    contactInfo |-> IF "contactInfo" \in source.keys
                    THEN SpreadContact(merged.contactInfo, source.contactInfo)
                    ELSE merged.contactInfo,
    schemaData |-> IF "schemaData" \in source.keys THEN source.schemaData
                   ELSE merged.schemaData,
    businessType |-> merged.businessType ]

RECURSIVE MergeFrom(_, _)
MergeFrom(merged, dataSources) ==
  IF dataSources = <<>> THEN merged
  ELSE MergeFrom(MergeSource(merged, Head(dataSources)), Tail(dataSources))

mergeExtractedData(dataSources) == MergeFrom(MergedInitial, dataSources)

\* ------------------------------------------------------- classifyBusinessType
\* How many of the keywords occur in allText (each counts once).
KeywordScore(allText, keywords) ==
  Cardinality({ i \in 1..Len(keywords) : Includes(allText, keywords[i]) })

\* The text the classifier scans.
AllText(data) ==
  ToLowerCase(Join(<< data.companyName, data.description, data.tagline >>
                     \o data.services \o data.products, <<" ">>))

catalogScore(data) == KeywordScore(AllText(data), BUSINESS_TYPE_KEYWORDS.catalog)
specialistScore(data) == KeywordScore(AllText(data), BUSINESS_TYPE_KEYWORDS.specialist)
ecosystemScore(data) == KeywordScore(AllText(data), BUSINESS_TYPE_KEYWORDS.ecosystem)

\* The final conditional, with specialist tested before ecosystem
HighestScoreSpecialistFirst(catalog, specialist, ecosystem) ==
  IF catalog >= specialist /\ catalog >= ecosystem THEN "catalog"
  ELSE IF specialist >= ecosystem THEN "specialist"
  ELSE "ecosystem"

\* The final conditional, with catalog needing a strict lead
HighestScoreStrictCatalog(catalog, specialist, ecosystem) ==
  IF catalog > specialist /\ catalog > ecosystem THEN "catalog"
  ELSE IF ecosystem > specialist THEN "ecosystem"
  ELSE "specialist"

\* The final conditional of classifyBusinessType.
HighestScore(catalog, specialist, ecosystem) ==
  IF catalog >= specialist /\ catalog >= ecosystem THEN "catalog"
  ELSE IF ecosystem >= specialist THEN "ecosystem"
  ELSE "specialist"

classifyBusinessType(data) ==
  HighestScore(catalogScore(data), specialistScore(data), ecosystemScore(data))

\* --------------------------------------------------------- cleanExtractedData
\* filter(Boolean) left out: every entry is kept
KeepsEverything(s) == TRUE

\* filter(Boolean) on strings: the empty string is dropped.
NonEmpty(s) == s # <<>>

CompanyNamePlaceholder == <<"C","o","m","p","a","n","y"," ","N","a","m","e">>
DescriptionPlaceholder == <<"N","o"," ","d","e","s","c","r","i","p","t","i","o","n"," ","a","v","a","i","l","a","b","l","e",".">>

\* cleanExtractedData with the two placeholder substitutions left out
cleanExtractedDataWithoutPlaceholders(data) ==
  [data EXCEPT
     !.services = SelectSeq(SelectSeq(SetSpread(data.services), NonEmpty), NotExcluded),
     !.products = SelectSeq(SelectSeq(SetSpread(data.products), NonEmpty), NotExcluded),
     !.teamInfo = SelectSeq(SetSpread(data.teamInfo), NonEmpty)]

cleanExtractedData(data) ==
  [data EXCEPT
     !.services = SelectSeq(SelectSeq(SetSpread(data.services), NonEmpty), NotExcluded),
     !.products = SelectSeq(SelectSeq(SetSpread(data.products), NonEmpty), NotExcluded),
     !.teamInfo = SelectSeq(SetSpread(data.teamInfo), NonEmpty),
     !.keys = @ \cup {"companyName", "description"},
     !.companyName = IF Truthy(data.companyName) THEN data.companyName
                     ELSE CompanyNamePlaceholder,
     !.description = IF Truthy(data.description) THEN data.description
                     ELSE DescriptionPlaceholder]

\* ------------------------------------------------------ calculateQualityScore
maxScore == 100

\* +10 for any name or description, the placeholder included
IdentificationPointsAnyValue(value, placeholder) ==
  IF Truthy(value) THEN 10 ELSE 0

\* +10 for a name or description that is set and is not its placeholder.
IdentificationPoints(value, placeholder) ==
  IF Truthy(value) /\ value # placeholder THEN 10 ELSE 0

\* The points of a list, with the cap done by wrapping
ListPointsWrapping(list) ==
  IF Len(list) > 0 THEN (Len(list) * 2) % 10 ELSE 0

\* +2 per entry of services or products, at most +10.
ListPoints(list) ==
  IF Len(list) > 0 THEN Min(10, Len(list) * 2) ELSE 0

HasSocialMedia(contactInfo) ==
  /\ contactInfo.socialMedia.present
  /\ \E p \in PlatformNames : contactInfo.socialMedia.links[p] # Absent

\* The sum of the contributions, before the final cap.
ScoreSum(data, servicesPoints, productsPoints) ==
    IdentificationPoints(data.companyName, CompanyNamePlaceholder)
  + IdentificationPoints(data.description, DescriptionPlaceholder)
  + servicesPoints
  + productsPoints
  + (IF Truthy(data.contactInfo.email) THEN 10 ELSE 0)
  + (IF Truthy(data.contactInfo.phone) THEN 5 ELSE 0)
  + (IF Truthy(data.contactInfo.address) THEN 5 ELSE 0)
  + (IF Truthy(data.mission) THEN 5 ELSE 0)
  + (IF Len(data.teamInfo) > 0 THEN 5 ELSE 0)
  + (IF Truthy(data.apiDocs) THEN 5 ELSE 0)
  + (IF HasSocialMedia(data.contactInfo) THEN 5 ELSE 0)
  + (IF Len(data.schemaData) > 0 THEN 20 ELSE 0)

\* calculateQualityScore with every cap left out
calculateQualityScoreUncapped(data) ==
  ScoreSum(data, Len(data.services) * 2, Len(data.products) * 2)

calculateQualityScore(data) ==
  Min(ScoreSum(data, ListPoints(data.services), ListPoints(data.products)), maxScore)

\* ------------------------------------------------------------ content bundles
NoList == [shape |-> "absent", items |-> <<>>]
ListOf(items) == [shape |-> "array", items |-> items]
Single(item) == [shape |-> "object", items |-> <<item>>]

NoAddress ==
  [ present |-> FALSE, streetAddress |-> Undefined, addressLocality |-> Undefined,
    addressRegion |-> Undefined, postalCode |-> Undefined,
    addressCountry |-> Undefined ]

Named(name) == [name |-> name]
Person(name, jobTitle, role) == [name |-> name, jobTitle |-> jobTitle, role |-> role]
ContactPoint(email, telephone) == [email |-> email, telephone |-> telephone]

\* An object with none of the properties the extractor reads.
PlainRecord ==
  [ isNull |-> FALSE, type |-> "undefined", name |-> Undefined,
    description |-> Undefined, slogan |-> Undefined, contactPoint |-> NoList,
    address |-> NoAddress, sameAs |-> NoList, makesOffer |-> NoList,
    hasOfferCatalog |-> [shape |-> "absent", itemListElement |-> NoList],
    employee |-> NoList, founder |-> NoList ]

AcmeOrganization ==
  [PlainRecord EXCEPT
     !.type = "Organization",
     !.name = <<"A","c","m","e"," ","C","o","r","p"," ","-"," ","O","f","f","i","c","i","a","l">>,
     !.sameAs = ListOf(<< <<"h","t","t","p","s",":","/","/","f","a","c","e","b","o","o","k",".","c","o","m","/","a","c","m","e">> >>)]

GlobexCorporation ==
  [PlainRecord EXCEPT
     !.type = "Corporation",
     !.name = <<"G","l","o","b","e","x">>,
     !.description = <<"I","n","t","e","g","r","a","t","e","d"," ","s","u","i","t","e">>,
     !.slogan = <<"A","l","l","-","i","n","-","o","n","e"," ","p","l","a","t","f","o","r","m">>,
     !.contactPoint = Single(ContactPoint(<<"p","r","e","s","s","@","g","l","o","b","e","x",".","i","o">>, <<"5","5","5","-","0","1","0","-","0","1","0","0">>)),
     !.address = [NoAddress EXCEPT !.present = TRUE,
                                   !.streetAddress = <<"1"," ","M","a","i","n"," ","S","t">>,
                                   !.addressCountry = <<"U","S">>],
     !.sameAs = ListOf(<< <<"h","t","t","p","s",":","/","/","x",".","c","o","m","/","g","l","o","b","e","x">>, <<"h","t","t","p","s",":","/","/","d","r","o","p","b","o","x",".","c","o","m","/","g","l","o","b","e","x">> >>),
     !.makesOffer = ListOf(<< Named(<<"W","i","d","g","e","t">>), Named(<<"P","r","i","c","e"," ","L","i","s","t">>) >>),
     !.hasOfferCatalog =
        [shape |-> "object",
         itemListElement |-> ListOf(<< Named(<<"C","o","n","s","u","l","t","i","n","g">>), Named(<<"P","r","i","c","i","n","g"," ","P","l","a","n","s">>),
                                       Named(<<"C","o","n","s","u","l","t","i","n","g">>) >>)],
     !.employee = ListOf(<< Person(<<"A","n","n">>, <<"C","E","O">>, Undefined),
                            Person(<<"D","a","n">>, Undefined, <<"A","d","v","i","s","o","r">>),
                            Person(Undefined, <<"I","n","t","e","r","n">>, Undefined) >>),
     !.founder = ListOf(<< Person(<<"B","o","b">>, Undefined, Undefined),
                           Person(<<"E","v","e">>, <<"C","F","O">>, <<"F","i","n","a","n","c","e">>) >>)]

LocalShop ==
  [PlainRecord EXCEPT
     !.type = "LocalBusiness",
     !.description = <<"E","x","p","e","r","t"," ","s","u","i","t","e">>,
     !.contactPoint = ListOf(<< ContactPoint(Undefined, <<"5","5","5","-","0","1","0","-","0","1","1","1">>) >>),
     !.sameAs = ListOf(<< <<"h","t","t","p","s",":","/","/","g","i","t","h","u","b",".","c","o","m","/","s","h","o","p">> >>)]

SupportService ==
  [PlainRecord EXCEPT
     !.type = "Service",
     !.name = <<"S","u","p","p","o","r","t">>,
     !.hasOfferCatalog =
        [shape |-> "object",
         itemListElement |-> ListOf(<< Named(<<"S","u","p","p","o","r","t">>), Named(<<"C","O","S","T"," ","r","e","v","i","e","w">>) >>)],
     !.makesOffer = Single(Named(<<"W","i","d","g","e","t">>))]

\* Records of an unexpected shape.
NullRecord == [PlainRecord EXCEPT !.isNull = TRUE]

EmptyContactPointList ==
  [PlainRecord EXCEPT !.type = "Organization", !.name = <<"I","n","i","t","e","c","h">>,
                      !.contactPoint = ListOf(<<>>)]

SingleEmployee ==
  [PlainRecord EXCEPT !.employee = Single(Person(<<"C","y">>, <<"C","T","O">>, Undefined))]

CatalogWithoutList ==
  [PlainRecord EXCEPT
     !.hasOfferCatalog =
        [shape |-> "object", itemListElement |-> Single(Named(<<"A","u","d","i","t">>))]]

JsonLdRecords ==
  { AcmeOrganization, GlobexCorporation, LocalShop, SupportService,
    NullRecord, EmptyContactPointList, SingleEmployee, CatalogWithoutList }

NoMetaTags ==
  [ description |-> Undefined, ogDescription |-> Undefined,
    twitterDescription |-> Undefined, ogSiteName |-> Undefined,
    applicationName |-> Undefined, title |-> Undefined, ogTitle |-> Undefined,
    twitterTitle |-> Undefined ]

AcmeMetaTags ==
  [NoMetaTags EXCEPT !.ogSiteName = <<"A","c","m","e">>,
                     !.description = <<"M","a","r","k","e","t","p","l","a","c","e"," ","a","n","d"," ","d","i","r","e","c","t","o","r","y">>,
                     !.twitterTitle = <<"A","c","m","e">>]

InitechMetaTags ==
  [NoMetaTags EXCEPT !.title = <<"I","n","i","t","e","c","h"," ","L","L","C"," ","|"," ","H","o","m","e">>,
                     !.ogDescription = <<"C","o","n","s","u","l","t","a","n","t"," ","a","g","e","n","c","y">>,
                     !.twitterTitle = <<"P","r","o","f","e","s","s","i","o","n","a","l"," ","s","e","r","v","i","c","e">>]

DashTitleMetaTags == [NoMetaTags EXCEPT !.ogTitle = <<"-"," ","H","o","m","e">>]

\* The text of a title element that ends with a line break.
MultiLineTitleMetaTags == [NoMetaTags EXCEPT !.title = <<"U","m","b","r","a"," ","L","t","d","."," ","-"," ","H","o","m","e">> \o <<LF>>]

MetaTagSets ==
  { NoMetaTags, AcmeMetaTags, InitechMetaTags, DashTitleMetaTags, MultiLineTitleMetaTags }

NoText ==
  [ emails |-> <<>>, phones |-> <<>>, servicesMatch |-> Undefined,
    missionMatch |-> Undefined, anchors |-> <<>> ]

AcmeText ==
  [ emails |-> << <<"j","a","n","e","@","g","m","a","i","l",".","c","o","m">>, <<"i","n","f","o","@","a","c","m","e",".","i","o">> >>,
    phones |-> << <<"5","5","5","-","0","1","0","-","0","1","9","9">> >>,
    servicesMatch |-> <<"C","o","n","s","u","l","t","i","n","g",","," ","P","r","i","c","i","n","g"," ","P","l","a","n","s",";"," ","S","u","p","p","o","r","t",".">>,
    missionMatch |-> <<"T","o"," ","d","e","l","i","v","e","r"," ","e","x","c","e","l","l","e","n","c","e"," ","i","n"," ","l","o","g","i","s","t","i","c","s",".">>,
    anchors |-> << [href |-> <<"/","d","o","c","s","/","a","p","i">>, label |-> <<"A","P","I">>] >> ]

SparseText ==
  [ emails |-> << <<"c","e","o","@","i","n","f","o",".","e","x","a","m","p","l","e">> >>,
    phones |-> <<>>,
    servicesMatch |-> <<"S","u","p","p","o","r","t",",",","," ","C","o","f","f","e","e",".">>,
    missionMatch |-> Undefined,
    anchors |-> << [href |-> <<"/","a","b","o","u","t">>, label |-> <<"D","e","v","e","l","o","p","e","r"," ","d","o","c","s">>] >> ]

GappedText ==
  [ emails |-> <<>>,
    phones |-> <<>>,
    servicesMatch |-> <<"c","o","m","p","l","e","t","e",",",","," ","s","o","l","u","t","i","o","n",".">>,
    missionMatch |-> Undefined,
    anchors |-> <<>> ]

Texts == { NoText, AcmeText, SparseText, GappedText }

\* The longest jsonLd sequence explored.
MaxRecords == 2

RECURSIVE SeqsUpTo(_, _)
SeqsUpTo(set, n) ==
  IF n = 0 THEN { <<>> }
  ELSE LET shorter == SeqsUpTo(set, n - 1)
       IN shorter \cup { Append(q, x) : q \in shorter, x \in set }

\* -------------------------------------------------------------- state machine
VARIABLES
  scrapedContent,   \* the content bundle posted to /api/extract
  pc,               \* position in extractData and the two endpoints
  index,            \* next element of jsonLdArray.forEach (1-based)
  structuredData,   \* extracted of extractFromStructuredData
  metaData,         \* result of extractFromMetaTags
  contentData,      \* result of extractFromContent
  mergedData,       \* result of mergeExtractedData, then classified
  extractedData,    \* the profile extractData returns
  qualityScore,     \* calculateQualityScore(extractedData)
  extractStatus,    \* HTTP status of /api/extract (0: no response yet)
  generateStatus,   \* HTTP status of /api/generate (0: no response yet)
  generateInvoked,  \* whether generateLLMSText has been called
  lastIndex,        \* lastIndex of the shared REGEX_PATTERNS.EMAIL and .PHONE
  history,          \* what each call of /api/extract so far was given and returned
  generationError,  \* message of the error raised inside generateLLMSText's try block
  stage,            \* HomePage: the ProcessingStage
  error,            \* HomePage: the error message shown ("" for none)
  result,           \* HomePage: the generated content ("null" for none)
  runs,             \* the calls of handleGenerate so far, each with its position
  scrape            \* the handling of one POST /api/scrape

vars ==
  << scrapedContent, pc, index, structuredData, metaData, contentData,
     mergedData, extractedData, qualityScore, extractStatus, generateStatus,
     generateInvoked, lastIndex, history,
     generationError, stage, error, result, runs, scrape >>

\* useState initial values of HomePage; no call of handleGenerate yet.
PageInitial ==
  /\ stage = "idle"
  /\ error = ""
  /\ result = "null"
  /\ runs = <<>>

\* No scrape request is being handled.
NoScrape ==
  [ pc |-> "none", usePlaywright |-> "undefined", launches |-> 0,
    scrapedLength |-> 0, retryLength |-> 0, status |-> 0, returned |-> "none" ]

ContentBundles ==
  { [jsonLd |-> j, metaTags |-> m, text |-> t] :
      j \in SeqsUpTo(JsonLdRecords, MaxRecords), m \in MetaTagSets, t \in Texts }

Init ==
  /\ scrapedContent \in ContentBundles
  /\ pc = "structured"
  /\ index = 1
  /\ structuredData = StructuredInitial
  /\ metaData = EmptyProfile
  /\ contentData = EmptyProfile
  /\ mergedData = EmptyProfile
  /\ extractedData = EmptyProfile
  /\ qualityScore = 0
  /\ extractStatus = 0
  /\ generateStatus = 0
  /\ generateInvoked = FALSE
  /\ lastIndex = [EMAIL |-> 0, PHONE |-> 0]
  /\ history = <<>>
  /\ generationError = Undefined
  /\ PageInitial
  /\ scrape = NoScrape

\* One iteration of jsonLdArray.forEach in extractFromStructuredData.
StructuredRecord ==
  /\ pc = "structured"
  /\ index <= Len(scrapedContent.jsonLd)
  /\ ~RecordThrows(scrapedContent.jsonLd[index])
  /\ structuredData' = ExtractRecord(structuredData, scrapedContent.jsonLd[index])
  /\ index' = index + 1
  /\ UNCHANGED << scrapedContent, pc, metaData, contentData, mergedData,
                  extractedData, qualityScore, extractStatus, generateStatus,
                  generateInvoked,
                  lastIndex, history,
                  generationError, stage, error, result, runs, scrape >>

\* An iteration that raises a TypeError: extractData rejects and the catch
\* block of the extract endpoint answers 500.
StructuredRecordThrows ==
  /\ pc = "structured"
  /\ index <= Len(scrapedContent.jsonLd)
  /\ RecordThrows(scrapedContent.jsonLd[index])
  /\ pc' = "extractFailed"
  /\ extractStatus' = 500
  /\ history' = Append(history, [bundle |-> scrapedContent, status |-> 500,
                                 profile |-> EmptyProfile, score |-> 0])
  /\ UNCHANGED << scrapedContent, index, structuredData, metaData, contentData,
                  mergedData, extractedData, qualityScore, generateStatus,
                  generateInvoked,
                  lastIndex,
                  generationError, stage, error, result, runs, scrape >>

\* After the loop: extracted.schemaData = jsonLdArray; return extracted.
StructuredDone ==
  /\ pc = "structured"
  /\ index > Len(scrapedContent.jsonLd)
  /\ structuredData' = [structuredData EXCEPT
                          !.keys = @ \cup {"schemaData"},
                          !.schemaData = scrapedContent.jsonLd]
  /\ pc' = "meta"
  /\ UNCHANGED << scrapedContent, index, metaData, contentData, mergedData,
                  extractedData, qualityScore, extractStatus, generateStatus,
                  generateInvoked,
                  lastIndex, history,
                  generationError, stage, error, result, runs, scrape >>

MetaTags ==
  /\ pc = "meta"
  /\ metaData' = extractFromMetaTags(scrapedContent.metaTags)
  /\ pc' = "content"
  /\ UNCHANGED << scrapedContent, index, structuredData, contentData, mergedData,
                  extractedData, qualityScore, extractStatus, generateStatus,
                  generateInvoked,
                  lastIndex, history,
                  generationError, stage, error, result, runs, scrape >>

\* text.match(regex) that searches from lastIndex and leaves it at the end
MatchWithoutReset(tokens, from) ==
  [found |-> SubSeq(tokens, from + 1, Len(tokens)), lastIndex |-> Len(tokens)]

\* text.match(regex) with a regex taken one match at a time from lastIndex
MatchFromLastIndex(tokens, from) ==
  IF from < Len(tokens)
  THEN [found |-> << tokens[from + 1] >>, lastIndex |-> from + 1]
  ELSE [found |-> <<>>, lastIndex |-> 0]

\* text.match(regex) for a regex with the g flag: lastIndex is set to 0, all
\* matches are collected, and lastIndex is 0 again when the search ends.
\* tokens are the matches in text order; from counts the matches that lie
\* before the regex's lastIndex.
MatchGlobal(tokens, from) == [found |-> tokens, lastIndex |-> 0]

Content ==
  /\ pc = "content"
  /\ LET emails == MatchGlobal(scrapedContent.text.emails, lastIndex.EMAIL)
         phones == MatchGlobal(scrapedContent.text.phones, lastIndex.PHONE)
     IN /\ contentData' = extractFromContent(
                            [scrapedContent.text EXCEPT !.emails = emails.found,
                                                        !.phones = phones.found])
        /\ lastIndex' = [EMAIL |-> emails.lastIndex, PHONE |-> phones.lastIndex]
  /\ pc' = "merge"
  /\ UNCHANGED << scrapedContent, index, structuredData, metaData, mergedData,
                  extractedData, qualityScore, extractStatus, generateStatus,
                  generateInvoked,
                  history,
                  generationError, stage, error, result, runs, scrape >>

Merge ==
  /\ pc = "merge"
  /\ mergedData' = mergeExtractedData(<< structuredData, metaData, contentData >>)
  /\ pc' = "classify"
  /\ UNCHANGED << scrapedContent, index, structuredData, metaData, contentData,
                  extractedData, qualityScore, extractStatus, generateStatus,
                  generateInvoked,
                  lastIndex, history,
                  generationError, stage, error, result, runs, scrape >>

\* mergedData.businessType = classifyBusinessType(mergedData)
Classify ==
  /\ pc = "classify"
  /\ mergedData' = [mergedData EXCEPT
                      !.keys = @ \cup {"businessType"},
                      !.businessType = classifyBusinessType(mergedData)]
  /\ pc' = "clean"
  /\ UNCHANGED << scrapedContent, index, structuredData, metaData, contentData,
                  extractedData, qualityScore, extractStatus, generateStatus,
                  generateInvoked,
                  lastIndex, history,
                  generationError, stage, error, result, runs, scrape >>

\* return cleanExtractedData(mergedData)
Clean ==
  /\ pc = "clean"
  /\ extractedData' = cleanExtractedData(mergedData)
  /\ pc' = "score"
  /\ UNCHANGED << scrapedContent, index, structuredData, metaData, contentData,
                  mergedData, qualityScore, extractStatus, generateStatus,
                  generateInvoked,
                  lastIndex, history,
                  generationError, stage, error, result, runs, scrape >>

\* The extract endpoint scores the profile and answers 200.
Score ==
  /\ pc = "score"
  /\ qualityScore' = calculateQualityScore(extractedData)
  /\ extractStatus' = 200
  /\ history' = Append(history, [bundle |-> scrapedContent, status |-> 200,
                                 profile |-> extractedData,
                                 score |-> calculateQualityScore(extractedData)])
  /\ pc' = "extracted"
  /\ UNCHANGED << scrapedContent, index, structuredData, metaData, contentData,
                  mergedData, extractedData, generateStatus, generateInvoked,
                  lastIndex,
                  generationError, stage, error, result, runs, scrape >>

\* MAX_FILE_SIZE, in bytes.
MAX_FILE_SIZE == 2 * 1024 * 1024

\* Sizes of the cleaned content around the limit.
ContentSizes == { 1, MAX_FILE_SIZE, MAX_FILE_SIZE + 1 }

\* Messages of the errors anthropic.messages.create rejects with.
ApiErrorMessages ==
  { <<"i","n","v","a","l","i","d"," ","A","P","I"," ","k","e","y">>, <<"r","a","t","e"," ","l","i","m","i","t"," ","e","x","c","e","e","d","e","d">>, <<"R","e","q","u","e","s","t"," ","t","i","m","e","o","u","t">>, <<"I","n","t","e","r","n","a","l"," ","s","e","r","v","e","r"," ","e","r","r","o","r">> }

\* What anthropic.messages.create gives: a rejection with a message, or a
\* text whose cleaned content has a size.
ApiReplies ==
  { [rejects |-> Undefined, size |-> n] : n \in ContentSizes }
    \cup { [rejects |-> m, size |-> 0] : m \in ApiErrorMessages }

\* The message of the error raised inside the try block of generateLLMSText,
\* Undefined when none is raised.
ThrownInTry(reply) ==
  IF reply.rejects # Undefined THEN reply.rejects
  ELSE IF reply.size > MAX_FILE_SIZE
  THEN <<"G","e","n","e","r","a","t","e","d"," ","c","o","n","t","e","n","t"," ","e","x","c","e","e","d","s"," ","m","a","x","i","m","u","m"," ","f","i","l","e"," ","s","i","z","e">>
  ELSE Undefined

\* The catch block of generateLLMSText: whatever was raised, a new error with
\* a fixed message is thrown.
generateLLMSTextRejection(reply) ==
  IF ThrownInTry(reply) # Undefined
  THEN <<"F","a","i","l","e","d"," ","t","o"," ","g","e","n","e","r","a","t","e"," ","L","L","M","S",".","t","x","t"," ","f","i","l","e">>
  ELSE Undefined

\* The catch block of the generate endpoint: the status chosen by the message.
ErrorStatus(message) ==
  IF Includes(message, <<"A","P","I"," ","k","e","y">>) THEN 401
  ELSE IF Includes(message, <<"r","a","t","e"," ","l","i","m","i","t">>) THEN 429
  ELSE IF Includes(message, <<"t","i","m","e","o","u","t">>) THEN 504
  ELSE IF Includes(message, <<"e","x","c","e","e","d","s"," ","m","a","x","i","m","u","m"," ","f","i","l","e"," ","s","i","z","e">>) THEN 413
  ELSE 500

\* What the call of generateLLMSText and the validation after it can give.
GenerationOutcomes == {"valid", "invalid", "throws"}

\* The quality gate of the generate endpoint: qualityScore && qualityScore < 20
BelowMinimum(score) == score # 0 /\ score < 20

\* POST /api/generate with the profile and score the page got from
\* /api/extract.
GeneratePOST ==
  /\ pc = "extracted"
  /\ \E apiKeyConfigured \in BOOLEAN, reply \in ApiReplies, outcome \in GenerationOutcomes :
       /\ (outcome = "throws") <=> (ThrownInTry(reply) # Undefined)
       /\ IF BelowMinimum(qualityScore)
          THEN generateStatus' = 400 /\ generateInvoked' = FALSE
               /\ generationError' = Undefined
          ELSE IF ~apiKeyConfigured
          THEN generateStatus' = 500 /\ generateInvoked' = FALSE
               /\ generationError' = Undefined
          ELSE /\ generateInvoked' = TRUE
               /\ generationError' = ThrownInTry(reply)
               /\ generateStatus' =
                    IF outcome = "valid" THEN 200
                    ELSE IF outcome = "invalid" THEN 500
                    ELSE ErrorStatus(generateLLMSTextRejection(reply))
  /\ pc' = "generated"
  /\ UNCHANGED << scrapedContent, index, structuredData, metaData, contentData,
                  mergedData, extractedData, qualityScore, extractStatus,
                  lastIndex, history,
                  stage, error, result, runs, scrape >>

Next ==
  \/ StructuredRecord
  \/ StructuredRecordThrows
  \/ StructuredDone
  \/ MetaTags
  \/ Content
  \/ Merge
  \/ Classify
  \/ Clean
  \/ Score
  \/ GeneratePOST

Spec == Init /\ [][Next]_vars

\* ------------------------------------------------ several calls of the endpoint
\* A third specification: the server handles one extract request after
\* another; module-level state (the shared regular expressions) survives
\* from one call to the next.

\* The most extract requests handled.
MaxCalls == 3

CallBundles ==
  { [jsonLd |-> j, metaTags |-> AcmeMetaTags, text |-> t] :
      j \in { <<>>, << GlobexCorporation >>, << NullRecord >> },
      t \in { NoText, AcmeText } }

InitCalls ==
  /\ Init
  /\ scrapedContent \in CallBundles

\* The next request arrives once the previous one is answered.
NewCall ==
  /\ pc \in {"extracted", "generated", "extractFailed"}
  /\ Len(history) < MaxCalls
  /\ scrapedContent' \in CallBundles
  /\ pc' = "structured"
  /\ index' = 1
  /\ structuredData' = StructuredInitial
  /\ metaData' = EmptyProfile
  /\ contentData' = EmptyProfile
  /\ mergedData' = EmptyProfile
  /\ extractedData' = EmptyProfile
  /\ qualityScore' = 0
  /\ extractStatus' = 0
  /\ generateStatus' = 0
  /\ generateInvoked' = FALSE
  /\ generationError' = Undefined
  /\ UNCHANGED << lastIndex, history,
                  stage, error, result, runs, scrape >>

NextCalls ==
  \/ StructuredRecord
  \/ StructuredRecordThrows
  \/ StructuredDone
  \/ MetaTags
  \/ Content
  \/ Merge
  \/ Classify
  \/ Clean
  \/ Score
  \/ GeneratePOST
  \/ NewCall

SpecCalls == InitCalls /\ [][NextCalls]_vars

\* ------------------------------------------- the extractors in any order
\* A specification in which the three extractor calls of extractData are
\* scheduled in any order, the iterations of the structured extractor
\* interleaved with the other two, and in which further runs follow that
\* share the module's regular expressions with the earlier ones.

\* The most runs of extractData.
MaxRuns == 2

AnyOrderBundles ==
  { [jsonLd |-> j, metaTags |-> AcmeMetaTags, text |-> t] :
      j \in { <<>>, << GlobexCorporation, LocalShop >>, << NullRecord >> },
      t \in { NoText, AcmeText } }

\* Whether an extractor has returned its partial profile.
StructuredReturned == "schemaData" \in structuredData.keys
MetaReturned == metaData.keys # {}
ContentReturned == contentData.keys # {}

InitAnyOrder ==
  /\ scrapedContent \in AnyOrderBundles
  /\ pc = "extractors"
  /\ index = 1
  /\ structuredData = StructuredInitial
  /\ metaData = EmptyProfile
  /\ contentData = EmptyProfile
  /\ mergedData = EmptyProfile
  /\ extractedData = EmptyProfile
  /\ qualityScore = 0
  /\ extractStatus = 0
  /\ generateStatus = 0
  /\ generateInvoked = FALSE
  /\ lastIndex = [EMAIL |-> 0, PHONE |-> 0]
  /\ history = <<>>
  /\ generationError = Undefined
  /\ PageInitial
  /\ scrape = NoScrape

AnyOrderStructuredRecord ==
  /\ pc = "extractors"
  /\ index <= Len(scrapedContent.jsonLd)
  /\ ~RecordThrows(scrapedContent.jsonLd[index])
  /\ structuredData' = ExtractRecord(structuredData, scrapedContent.jsonLd[index])
  /\ index' = index + 1
  /\ UNCHANGED << scrapedContent, pc, metaData, contentData, mergedData,
                  extractedData, qualityScore, extractStatus, generateStatus,
                  generateInvoked, lastIndex, history,
                  generationError, stage, error, result, runs, scrape >>

AnyOrderStructuredRecordThrows ==
  /\ pc = "extractors"
  /\ index <= Len(scrapedContent.jsonLd)
  /\ RecordThrows(scrapedContent.jsonLd[index])
  /\ pc' = "extractFailed"
  /\ extractStatus' = 500
  /\ history' = Append(history, [bundle |-> scrapedContent, status |-> 500,
                                 profile |-> EmptyProfile, score |-> 0])
  /\ UNCHANGED << scrapedContent, index, structuredData, metaData, contentData,
                  mergedData, extractedData, qualityScore, generateStatus,
                  generateInvoked, lastIndex,
                  generationError, stage, error, result, runs, scrape >>

AnyOrderStructuredDone ==
  /\ pc = "extractors"
  /\ index > Len(scrapedContent.jsonLd)
  /\ ~StructuredReturned
  /\ structuredData' = [structuredData EXCEPT
                          !.keys = @ \cup {"schemaData"},
                          !.schemaData = scrapedContent.jsonLd]
  /\ UNCHANGED << scrapedContent, pc, index, metaData, contentData, mergedData,
                  extractedData, qualityScore, extractStatus, generateStatus,
                  generateInvoked, lastIndex, history,
                  generationError, stage, error, result, runs, scrape >>

AnyOrderMetaTags ==
  /\ pc = "extractors"
  /\ ~MetaReturned
  /\ metaData' = extractFromMetaTags(scrapedContent.metaTags)
  /\ UNCHANGED << scrapedContent, pc, index, structuredData, contentData, mergedData,
                  extractedData, qualityScore, extractStatus, generateStatus,
                  generateInvoked, lastIndex, history,
                  generationError, stage, error, result, runs, scrape >>

AnyOrderContent ==
  /\ pc = "extractors"
  /\ ~ContentReturned
  /\ LET emails == MatchGlobal(scrapedContent.text.emails, lastIndex.EMAIL)
         phones == MatchGlobal(scrapedContent.text.phones, lastIndex.PHONE)
     IN /\ contentData' = extractFromContent(
                            [scrapedContent.text EXCEPT !.emails = emails.found,
                                                        !.phones = phones.found])
        /\ lastIndex' = [EMAIL |-> emails.lastIndex, PHONE |-> phones.lastIndex]
  /\ UNCHANGED << scrapedContent, pc, index, structuredData, metaData, mergedData,
                  extractedData, qualityScore, extractStatus, generateStatus,
                  generateInvoked, history,
                  generationError, stage, error, result, runs, scrape >>

\* mergeExtractedData(structuredData, metaData, contentData) once all three
\* have returned.
AnyOrderMerge ==
  /\ pc = "extractors"
  /\ StructuredReturned /\ MetaReturned /\ ContentReturned
  /\ mergedData' = mergeExtractedData(<< structuredData, metaData, contentData >>)
  /\ pc' = "classify"
  /\ UNCHANGED << scrapedContent, index, structuredData, metaData, contentData,
                  extractedData, qualityScore, extractStatus, generateStatus,
                  generateInvoked, lastIndex, history,
                  generationError, stage, error, result, runs, scrape >>

\* extractData is called again, for the same or another bundle.
NewRun ==
  /\ pc \in {"extracted", "extractFailed"}
  /\ Len(history) < MaxRuns
  /\ scrapedContent' \in AnyOrderBundles
  /\ pc' = "extractors"
  /\ index' = 1
  /\ structuredData' = StructuredInitial
  /\ metaData' = EmptyProfile
  /\ contentData' = EmptyProfile
  /\ mergedData' = EmptyProfile
  /\ extractedData' = EmptyProfile
  /\ qualityScore' = 0
  /\ extractStatus' = 0
  /\ UNCHANGED << generateStatus, generateInvoked, lastIndex, history,
                  generationError, stage, error, result, runs, scrape >>

NextAnyOrder ==
  \/ AnyOrderStructuredRecord
  \/ AnyOrderStructuredRecordThrows
  \/ AnyOrderStructuredDone
  \/ AnyOrderMetaTags
  \/ AnyOrderContent
  \/ AnyOrderMerge
  \/ Classify
  \/ Clean
  \/ Score
  \/ NewRun

SpecAnyOrder == InitAnyOrder /\ [][NextAnyOrder]_vars

\* ---------------------------------------------- the scorer over grown profiles
\* A second specification: starting from the profile extractData returns for
\* an empty bundle, one field is populated or one entry appended at a time,
\* and the profile is scored after every step.

\* The most services and the most products of a grown profile.
MaxListed == 6

\* The most team entries, social-media entries and structured records.
MaxEntries == 1

EmptyBundle == [jsonLd |-> <<>>, metaTags |-> NoMetaTags, text |-> NoText]

SparseProfile == cleanExtractedData(mergeExtractedData(<<>>))

InitScore ==
  /\ scrapedContent = EmptyBundle
  /\ pc = "scoring"
  /\ index = 1
  /\ structuredData = EmptyProfile
  /\ metaData = EmptyProfile
  /\ contentData = EmptyProfile
  /\ mergedData = EmptyProfile
  /\ extractedData = SparseProfile
  /\ qualityScore = calculateQualityScore(SparseProfile)
  /\ extractStatus = 0
  /\ generateStatus = 0
  /\ generateInvoked = FALSE
  /\ lastIndex = [EMAIL |-> 0, PHONE |-> 0]
  /\ history = <<>>
  /\ generationError = Undefined
  /\ PageInitial
  /\ scrape = NoScrape

\* The profile becomes next and is scored again.
Rescore(next) ==
  /\ pc = "scoring"
  /\ extractedData' = next
  /\ qualityScore' = calculateQualityScore(next)
  /\ UNCHANGED << scrapedContent, pc, index, structuredData, metaData,
                  contentData, mergedData, extractStatus, generateStatus,
                  generateInvoked,
                  lastIndex, history,
                  generationError, stage, error, result, runs, scrape >>

PopulateCompanyName ==
  /\ extractedData.companyName = CompanyNamePlaceholder
  /\ Rescore([extractedData EXCEPT !.companyName = <<"A","c","m","e">>])

PopulateDescription ==
  /\ extractedData.description = DescriptionPlaceholder
  /\ Rescore([extractedData EXCEPT !.description = <<"I","n","t","e","g","r","a","t","e","d"," ","s","u","i","t","e">>])

PopulateMission ==
  /\ extractedData.mission = Undefined
  /\ Rescore([extractedData EXCEPT !.keys = @ \cup {"mission"},
                                   !.mission = <<"T","o"," ","d","e","l","i","v","e","r"," ","e","x","c","e","l","l","e","n","c","e",".">>])

PopulateApiDocs ==
  /\ extractedData.apiDocs = Undefined
  /\ Rescore([extractedData EXCEPT !.keys = @ \cup {"apiDocs"},
                                   !.apiDocs = <<"A","P","I"," ","d","o","c","u","m","e","n","t","a","t","i","o","n"," ","a","v","a","i","l","a","b","l","e">>])

PopulateEmail ==
  /\ extractedData.contactInfo.email = Absent
  /\ Rescore([extractedData EXCEPT !.contactInfo.email = <<"i","n","f","o","@","a","c","m","e",".","i","o">>])

PopulatePhone ==
  /\ extractedData.contactInfo.phone = Absent
  /\ Rescore([extractedData EXCEPT !.contactInfo.phone = <<"5","5","5","-","0","1","0","-","0","1","9","9">>])

PopulateAddress ==
  /\ extractedData.contactInfo.address = Absent
  /\ Rescore([extractedData EXCEPT !.contactInfo.address = <<"1"," ","M","a","i","n"," ","S","t",","," ","U","S">>])

AppendService ==
  /\ Len(extractedData.services) < MaxListed
  /\ Rescore([extractedData EXCEPT !.services = Append(@, <<"S","u","p","p","o","r","t">>)])

AppendProduct ==
  /\ Len(extractedData.products) < MaxListed
  /\ Rescore([extractedData EXCEPT !.products = Append(@, <<"W","i","d","g","e","t">>)])

AppendTeamEntry ==
  /\ Len(extractedData.teamInfo) < MaxEntries
  /\ Rescore([extractedData EXCEPT !.teamInfo = Append(@, <<"A","n","n"," ","-"," ","C","E","O">>)])

SocialMediaCount(contactInfo) ==
  Cardinality({ p \in PlatformNames : contactInfo.socialMedia.links[p] # Absent })

AddSocialMedia ==
  /\ SocialMediaCount(extractedData.contactInfo) < MaxEntries
  /\ \E i \in 1..Len(platforms) :
       /\ extractedData.contactInfo.socialMedia.links[platforms[i].platform] = Absent
       /\ \A j \in 1..(i - 1) :
            extractedData.contactInfo.socialMedia.links[platforms[j].platform] # Absent
       /\ Rescore([extractedData EXCEPT
             !.contactInfo.socialMedia =
                [present |-> TRUE,
                 links |-> [@.links EXCEPT ![platforms[i].platform] =
                              <<"h","t","t","p","s",":","/","/">> \o platforms[i].domain]]])

AppendRecord ==
  /\ Len(extractedData.schemaData) < MaxEntries
  /\ Rescore([extractedData EXCEPT !.keys = @ \cup {"schemaData"},
                                   !.schemaData = Append(@, AcmeOrganization)])

NextScore ==
  \/ PopulateCompanyName
  \/ PopulateDescription
  \/ PopulateMission
  \/ PopulateApiDocs
  \/ PopulateEmail
  \/ PopulatePhone
  \/ PopulateAddress
  \/ AppendService
  \/ AppendProduct
  \/ AppendTeamEntry
  \/ AddSocialMedia
  \/ AppendRecord

SpecScore == InitScore /\ [][NextScore]_vars

\* ------------------------------------------------------------ the page
\* A specification of HomePage: the user submits urls and clicks the reset
\* buttons that are rendered, and every call of handleGenerate goes through
\* its four fetches as their responses arrive.

\* The most submissions of the form.
MaxSubmits == 3

\* The backend steps in the order handleGenerate requests them, and the stage
\* set before each.
Steps == << "validate", "scrape", "extract", "generate" >>
StageOf == [ validate |-> "validating", scrape |-> "scraping",
             extract |-> "extracting", generate |-> "generating" ]

\* The position of step in Steps.
StepNumber(step) == CHOOSE k \in 1..Len(Steps) : Steps[k] = step

\* The disabled prop is never set
disabledNever(s) == FALSE

\* The disabled prop HomePage gives URLInput; it disables the input and the
\* submit button.
disabled(s) == s # "idle" /\ s # "complete" /\ s # "error"

\* Every answer is taken for a success but a failed validation
ContinuesUnlessValidationFailed(step, success) == success \/ step # "validate"

\* Whether handleGenerate goes on after the response of a step: it throws
\* unless the response reports success.
Continues(step, success) == success

InitPage ==
  /\ scrapedContent = EmptyBundle
  /\ pc = "page"
  /\ index = 1
  /\ structuredData = EmptyProfile
  /\ metaData = EmptyProfile
  /\ contentData = EmptyProfile
  /\ mergedData = EmptyProfile
  /\ extractedData = EmptyProfile
  /\ qualityScore = 0
  /\ extractStatus = 0
  /\ generateStatus = 0
  /\ generateInvoked = FALSE
  /\ lastIndex = [EMAIL |-> 0, PHONE |-> 0]
  /\ history = <<>>
  /\ generationError = Undefined
  /\ PageInitial
  /\ scrape = NoScrape

\* The form is submitted with a valid url: handleGenerate runs up to its
\* first await (handleReset, setStage('validating'), fetch of /api/validate).
Submit ==
  /\ pc = "page"
  /\ ~disabled(stage)
  /\ Len(runs) < MaxSubmits
  /\ stage' = StageOf[Steps[1]]
  /\ error' = ""
  /\ result' = "null"
  /\ runs' = Append(runs, [ awaiting |-> Steps[1], requested |-> << Steps[1] >>,
                            responses |-> <<>> ])
  /\ UNCHANGED << scrapedContent, pc, index, structuredData, metaData, contentData,
                  mergedData, extractedData, qualityScore, extractStatus,
                  generateStatus, generateInvoked, lastIndex, history,
                  generationError, scrape >>

\* The response of the step a call of handleGenerate awaits arrives.
StepResponse ==
  /\ pc = "page"
  /\ \E r \in 1..Len(runs), success \in BOOLEAN :
       LET run == runs[r]
           k == StepNumber(run.awaiting)
           answered == [run EXCEPT !.responses = Append(@, success)]
       IN /\ run.awaiting # "none"
          /\ IF ~Continues(run.awaiting, success)
             THEN \* catch: setStage('error'), setError(...)
                  /\ stage' = "error"
                  /\ error' = "message"
                  /\ result' = result
                  /\ runs' = [runs EXCEPT ![r] = [answered EXCEPT !.awaiting = "none"]]
             ELSE IF k < Len(Steps)
             THEN \* setStage of the next step and its fetch
                  /\ stage' = StageOf[Steps[k + 1]]
                  /\ error' = error
                  /\ result' = result
                  /\ runs' = [runs EXCEPT ![r] =
                                [answered EXCEPT !.awaiting = Steps[k + 1],
                                                 !.requested = Append(@, Steps[k + 1])]]
             ELSE \* setStage('complete'), setResult(generateResult.data)
                  /\ stage' = "complete"
                  /\ error' = error
                  /\ result' = "content"
                  /\ runs' = [runs EXCEPT ![r] = [answered EXCEPT !.awaiting = "none"]]
  /\ UNCHANGED << scrapedContent, pc, index, structuredData, metaData, contentData,
                  mergedData, extractedData, qualityScore, extractStatus,
                  generateStatus, generateInvoked, lastIndex, history,
                  generationError, scrape >>

\* A click on 'Try Again' of the error box or on the reset of ResultDisplay,
\* whichever is rendered.
handleReset ==
  /\ pc = "page"
  /\ \/ stage = "error" /\ error # ""
     \/ stage = "complete" /\ result # "null"
  /\ stage' = "idle"
  /\ error' = ""
  /\ result' = "null"
  /\ UNCHANGED << scrapedContent, pc, index, structuredData, metaData, contentData,
                  mergedData, extractedData, qualityScore, extractStatus,
                  generateStatus, generateInvoked, lastIndex, history,
                  generationError, runs, scrape >>

NextPage ==
  \/ Submit
  \/ StepResponse
  \/ handleReset

SpecPage == InitPage /\ [][NextPage]_vars

\* ------------------------------------------------------ the scrape endpoint
\* A specification of POST /api/scrape handling one request: the calls of
\* scrapeWebsite it makes, the engines these use, and its response.

\* The length below which textContent counts as too short.
MinTextLength == 100

\* Lengths of the trimmed textContent a scrape can give.
TextLengths == { 0, 50, MinTextLength - 1, MinTextLength, MinTextLength + 1 }

\* The usePlaywright property of the request body (optional boolean).
UsePlaywrightValues == { "undefined", "false", "true" }

InitScrape ==
  /\ scrapedContent = EmptyBundle
  /\ pc = "scrape"
  /\ index = 1
  /\ structuredData = EmptyProfile
  /\ metaData = EmptyProfile
  /\ contentData = EmptyProfile
  /\ mergedData = EmptyProfile
  /\ extractedData = EmptyProfile
  /\ qualityScore = 0
  /\ extractStatus = 0
  /\ generateStatus = 0
  /\ generateInvoked = FALSE
  /\ lastIndex = [EMAIL |-> 0, PHONE |-> 0]
  /\ history = <<>>
  /\ generationError = Undefined
  /\ PageInitial
  /\ \E u \in UsePlaywrightValues :
       scrape = [NoScrape EXCEPT !.pc = "scrapeWebsite", !.usePlaywright = u]

\* scrapeWebsite(url, { usePlaywright }) with a falsy flag: scrapeWithCheerio
\* returns content, or throws and the catch falls through to Playwright.
ScrapeWithCheerio ==
  /\ pc = "scrape"
  /\ scrape.pc = "scrapeWebsite"
  /\ scrape.usePlaywright # "true"
  /\ \/ \E n \in TextLengths :
          scrape' = [scrape EXCEPT !.pc = "check", !.scrapedLength = n]
     \/ scrape' = [scrape EXCEPT !.pc = "fallback"]
  /\ UNCHANGED << scrapedContent, pc, index, structuredData, metaData, contentData,
                  mergedData, extractedData, qualityScore, extractStatus,
                  generateStatus, generateInvoked, lastIndex, history,
                  generationError, stage, error, result, runs >>

\* scrapeWithPlaywright in the first call of scrapeWebsite, asked for by the
\* request or after Cheerio failed: the browser is launched, and the call
\* returns content or throws (the endpoint answers 500).
ScrapeWithPlaywright ==
  /\ pc = "scrape"
  /\ \/ scrape.pc = "scrapeWebsite" /\ scrape.usePlaywright = "true"
     \/ scrape.pc = "fallback"
  /\ \/ \E n \in TextLengths :
          scrape' = [scrape EXCEPT !.pc = "check", !.scrapedLength = n,
                                   !.launches = @ + 1]
     \/ scrape' = [scrape EXCEPT !.pc = "done", !.status = 500, !.launches = @ + 1]
  /\ UNCHANGED << scrapedContent, pc, index, structuredData, metaData, contentData,
                  mergedData, extractedData, qualityScore, extractStatus,
                  generateStatus, generateInvoked, lastIndex, history,
                  generationError, stage, error, result, runs >>

\* Whether the endpoint scrapes again with Playwright: the content is too
\* short and the request did not ask for Playwright.
Retries(length, usePlaywright) == length < MinTextLength /\ usePlaywright # "true"

\* The check of the scraped content: retry, or answer with it.
CheckContent ==
  /\ pc = "scrape"
  /\ scrape.pc = "check"
  /\ IF Retries(scrape.scrapedLength, scrape.usePlaywright)
     THEN scrape' = [scrape EXCEPT !.pc = "retry"]
     ELSE scrape' = [scrape EXCEPT !.pc = "done", !.status = 200, !.returned = "first"]
  /\ UNCHANGED << scrapedContent, pc, index, structuredData, metaData, contentData,
                  mergedData, extractedData, qualityScore, extractStatus,
                  generateStatus, generateInvoked, lastIndex, history,
                  generationError, stage, error, result, runs >>

\* scrapeWebsite(url, { usePlaywright: true }): the browser is launched; the
\* retry content is returned if it is longer than the minimum, else the
\* content of the first call; a throw gives 500.
RetryWithPlaywright ==
  /\ pc = "scrape"
  /\ scrape.pc = "retry"
  /\ \/ \E n \in TextLengths :
          scrape' = [scrape EXCEPT
                       !.pc = "done", !.status = 200, !.retryLength = n,
                       !.launches = @ + 1,
                       !.returned = IF n > MinTextLength THEN "retry" ELSE "first"]
     \/ scrape' = [scrape EXCEPT !.pc = "done", !.status = 500, !.launches = @ + 1]
  /\ UNCHANGED << scrapedContent, pc, index, structuredData, metaData, contentData,
                  mergedData, extractedData, qualityScore, extractStatus,
                  generateStatus, generateInvoked, lastIndex, history,
                  generationError, stage, error, result, runs >>

NextScrape ==
  \/ ScrapeWithCheerio
  \/ ScrapeWithPlaywright
  \/ CheckContent
  \/ RetryWithPlaywright

SpecScrape == InitScrape /\ [][NextScrape]_vars

\* ------------------------------------------------------------------ properties
\* extractData has returned its profile.
Returned == pc \in {"score", "extracted", "generated"}

\* mergeExtractedData has returned.
Merged == pc \in {"classify", "clean", "score", "extracted", "generated"}

\* classifyBusinessType has returned.
Classified == pc \in {"clean", "score", "extracted", "generated"}

\* A value that is neither missing nor undefined.
Defined(v) == v # Absent /\ v # Undefined

\* A string that has a denylist term in it, whatever the letter case.
HasDenylistTerm(s) ==
  \E i \in 1..Len(EXCLUDED_CONTENT) : Includes(ToLowerCase(s), EXCLUDED_CONTENT[i])

ScalarFields == {"companyName", "description", "tagline", "mission"}

\* C1: a scalar field the structured-data source sets holds the structured
\* value in the profile extractData returns, never the meta or text value.
C1_StructuredScalarWins ==
  Returned =>
    \A f \in ScalarFields :
      Truthy(structuredData[f]) => extractedData[f] = structuredData[f]

\* C2: a profile scoring below 20 (0 included) is rejected by the generate
\* endpoint and generateLLMSText is not invoked for it.
C2_LowScoreNeverGenerated ==
  (pc = "generated" /\ qualityScore < 20) =>
    (~generateInvoked /\ generateStatus # 200)

RECURSIVE FirstDefined(_)
FirstDefined(values) ==
  IF values = <<>> THEN Undefined
  ELSE IF Defined(Head(values)) THEN Head(values) ELSE FirstDefined(Tail(values))

ContactKeys == {"email", "phone", "address"}

\* C4: merging structured, meta, text in this order, a contact key keeps the
\* value of the first source that defines it and is never overwritten by a
\* later source; a key no earlier source defines takes the first defined
\* value of a later source.
C4_EarlierContactKeyKept ==
  Merged =>
    /\ \A k \in ContactKeys :
         Read(mergedData.contactInfo[k]) =
           FirstDefined(<< structuredData.contactInfo[k], metaData.contactInfo[k],
                           contentData.contactInfo[k] >>)
    /\ mergedData.contactInfo.socialMedia =
         ( IF structuredData.contactInfo.socialMedia.present
           THEN structuredData.contactInfo.socialMedia
           ELSE IF metaData.contactInfo.socialMedia.present
           THEN metaData.contactInfo.socialMedia
           ELSE contentData.contactInfo.socialMedia )

\* C5: a record of an unexpected shape contributes nothing and does not
\* raise: the remaining records are processed and extractData returns.
C5_MalformedRecordNeverAborts ==
  /\ pc # "extractFailed"
  /\ extractStatus # 500

\* The elements of out are those of in, each once, in the order of their
\* first occurrence in in.
FirstIndex(in, x) == CHOOSE i \in 1..Len(in) : in[i] = x /\ \A j \in 1..(i - 1) : in[j] # x

InFirstSeenOrder(out, in) ==
  /\ \A i, j \in 1..Len(out) : i # j => out[i] # out[j]
  /\ { out[i] : i \in 1..Len(out) } = { in[i] : i \in 1..Len(in) }
  /\ \A i, j \in 1..Len(out) : i < j => FirstIndex(in, out[i]) < FirstIndex(in, out[j])

ArrayFields == {"services", "products", "teamInfo"}

\* C6: each array of the merged profile holds no value twice, in the order of
\* first occurrence in structured, then meta, then text.
C6_ArraysDeduplicatedFirstSeen ==
  Merged =>
    \A f \in ArrayFields :
      InFirstSeenOrder(mergedData[f],
                       structuredData[f] \o metaData[f] \o contentData[f])

\* A merge whose sources repeat a service: within the structured source and
\* between the structured and the text source.
C6_Witness ==
  /\ Merged
  /\ \E i, j \in 1..Len(structuredData.services) :
       i < j /\ structuredData.services[i] = structuredData.services[j]
  /\ \E i \in 1..Len(structuredData.services) :
       \E j \in 1..Len(contentData.services) :
         structuredData.services[i] = contentData.services[j]
  /\ Len(mergedData.services) >= 2

Max3(a, b, c) ==
  IF a >= b /\ a >= c THEN a ELSE IF b >= c THEN b ELSE c

\* C7: the archetype returned has a keyword count at least as large as the
\* other two, and among archetypes that tie for the largest count catalog is
\* preferred to ecosystem and ecosystem to specialist.
C7_HighestCountWithTieOrder ==
  Classified =>
    LET c == catalogScore(mergedData)
        s == specialistScore(mergedData)
        e == ecosystemScore(mergedData)
        m == Max3(c, s, e)
    IN /\ mergedData.businessType \in {"catalog", "ecosystem", "specialist"}
       /\ mergedData.businessType = "catalog" => c = m
       /\ mergedData.businessType = "ecosystem" => e = m /\ c < m
       /\ mergedData.businessType = "specialist" => s = m /\ c < m /\ e < m

\* Ecosystem and specialist tie for the largest count, above catalog.
C7_Witness ==
  /\ Classified
  /\ ecosystemScore(mergedData) = specialistScore(mergedData)
  /\ ecosystemScore(mergedData) > catalogScore(mergedData)
  /\ mergedData.businessType = "ecosystem"

\* No archetype has a count strictly above both others.
NoOutrightLeader(c, s, e) ==
  ~(c > s /\ c > e) /\ ~(s > c /\ s > e) /\ ~(e > c /\ e > s)

\* C8 as claimed: when no archetype has a count strictly greater than both
\* others (all three zero included) the classifier returns specialist.
C8_NoLeaderGivesSpecialist ==
  Classified =>
    ( NoOutrightLeader(catalogScore(mergedData), specialistScore(mergedData),
                       ecosystemScore(mergedData))
        => mergedData.businessType = "specialist" )

\* C8 as amended: specialist is returned exactly when its count is strictly
\* greater than both others; when no archetype leads outright the classifier
\* returns catalog if catalog ties for the largest count (all three zero
\* included) and ecosystem otherwise.
C8_SpecialistNeedsOutrightLead ==
  Classified =>
    LET c == catalogScore(mergedData)
        s == specialistScore(mergedData)
        e == ecosystemScore(mergedData)
    IN /\ mergedData.businessType = "specialist" <=> (s > c /\ s > e)
       /\ NoOutrightLeader(c, s, e) =>
            mergedData.businessType = (IF c >= e THEN "catalog" ELSE "ecosystem")

\* A classified profile whose text has no keyword at all.
C8_Witness ==
  /\ Classified
  /\ catalogScore(mergedData) = 0
  /\ specialistScore(mergedData) = 0
  /\ ecosystemScore(mergedData) = 0
  /\ mergedData.businessType = "catalog"

\* C9: the quality score is an integer from 0 to 100.
C9_ScoreInRange == qualityScore \in 0..100

\* A profile with every field populated and more services than the cap counts.
C9_Witness ==
  /\ pc = "scoring"
  /\ Len(extractedData.services) > 5
  /\ Len(extractedData.products) >= 5
  /\ qualityScore = 100

\* C10: populating one more field or appending one more entry never lowers
\* the quality score.
C10_ScoreMonotone == [][qualityScore' >= qualityScore]_vars

\* A profile whose services were appended up to and past the cap.
C10_Witness ==
  /\ pc = "scoring"
  /\ Len(extractedData.services) > 5
  /\ Truthy(extractedData.contactInfo.email)
  /\ qualityScore = 20

\* The points the scoring rules give a profile.
ExpectedScore(data) ==
  Min(100,
        (IF Truthy(data.companyName) /\ data.companyName # <<"C","o","m","p","a","n","y"," ","N","a","m","e">>
         THEN 10 ELSE 0)
      + (IF Truthy(data.description) /\ data.description # <<"N","o"," ","d","e","s","c","r","i","p","t","i","o","n"," ","a","v","a","i","l","a","b","l","e",".">>
         THEN 10 ELSE 0)
      + Min(10, 2 * Len(data.services))
      + Min(10, 2 * Len(data.products))
      + (IF Truthy(data.contactInfo.email) THEN 10 ELSE 0)
      + (IF Truthy(data.contactInfo.phone) THEN 5 ELSE 0)
      + (IF Truthy(data.contactInfo.address) THEN 5 ELSE 0)
      + (IF Truthy(data.mission) THEN 5 ELSE 0)
      + (IF data.teamInfo # <<>> THEN 5 ELSE 0)
      + (IF Truthy(data.apiDocs) THEN 5 ELSE 0)
      + (IF \E p \in PlatformNames : data.contactInfo.socialMedia.links[p] # Absent
         THEN 5 ELSE 0)
      + (IF data.schemaData # <<>> THEN 20 ELSE 0))

\* Nothing but the identification fields and the structured records is set.
OnlyIdentification(data) ==
  /\ data.services = <<>> /\ data.products = <<>> /\ data.teamInfo = <<>>
  /\ ~Truthy(data.contactInfo.email) /\ ~Truthy(data.contactInfo.phone)
  /\ ~Truthy(data.contactInfo.address) /\ ~Truthy(data.mission)
  /\ ~Truthy(data.apiDocs)
  /\ \A p \in PlatformNames : data.contactInfo.socialMedia.links[p] = Absent

Scored == pc \in {"scoring", "extracted", "generated"}

\* C11: the quality score is min(100, sum of the listed contributions); a
\* profile with only a non-placeholder name scores 10, one with name,
\* description and one structured record scores 40.
C11_ScoreIsCappedSum ==
  Scored =>
    /\ qualityScore = ExpectedScore(extractedData)
    /\ ( /\ OnlyIdentification(extractedData)
         /\ extractedData.companyName # CompanyNamePlaceholder
         /\ extractedData.description = DescriptionPlaceholder
         /\ extractedData.schemaData = <<>> ) => qualityScore = 10
    /\ ( /\ OnlyIdentification(extractedData)
         /\ extractedData.companyName # CompanyNamePlaceholder
         /\ extractedData.description # DescriptionPlaceholder
         /\ Len(extractedData.schemaData) = 1 ) => qualityScore = 40

\* Name, description and one structured record, nothing else: 40 points.
C11_Witness ==
  /\ pc = "scoring"
  /\ OnlyIdentification(extractedData)
  /\ extractedData.companyName # CompanyNamePlaceholder
  /\ extractedData.description # DescriptionPlaceholder
  /\ Len(extractedData.schemaData) = 1
  /\ qualityScore = 40

\* C12: after cleanExtractedData, services, products and teamInfo of the
\* returned profile hold no empty string.
C12_NoEmptyStringInArrays ==
  Returned =>
    \A f \in ArrayFields :
      \A i \in 1..Len(extractedData[f]) : extractedData[f][i] # <<>>

\* The merged services held an empty entry that cleaning had to remove.
C12_Witness ==
  /\ Returned
  /\ \E i \in 1..Len(mergedData.services) : mergedData.services[i] = <<>>
  /\ extractedData.services # <<>>

\* C13: extractData keeps no state from one call to the next: two calls on
\* equal bundles return equal profiles, archetypes and quality scores,
\* whatever calls ran before or between them.
C13_EqualBundlesEqualResults ==
  \A i, j \in 1..Len(history) :
    history[i].bundle = history[j].bundle => history[i] = history[j]

\* The first and the third call got the same bundle, whose text has two
\* email matches, and another call ran between them.
C13_Witness ==
  /\ Len(history) = 3
  /\ history[1].bundle = history[3].bundle
  /\ history[2].bundle # history[1].bundle
  /\ Len(history[1].bundle.text.emails) >= 2
  /\ history[3].status = 200

\* C14: the archetype is computed from the policy-filtered profile (merge,
\* then filter, then classification), and the classifier's input holds no
\* service or product that the policy filter removes.
C14_ArchetypeOfFilteredProfile ==
  /\ Returned => extractedData.businessType = classifyBusinessType(extractedData)
  /\ Classified =>
       /\ \A i \in 1..Len(mergedData.services) : ~HasDenylistTerm(mergedData.services[i])
       /\ \A i \in 1..Len(mergedData.products) : ~HasDenylistTerm(mergedData.products[i])

\* Some source has a non-empty value for the field.
SomeSourceHas(f) ==
  Truthy(structuredData[f]) \/ Truthy(metaData[f]) \/ Truthy(contentData[f])

\* C15: the merge replaces a scalar only by a non-empty value: an empty
\* string from one source never replaces another source's non-empty value,
\* so a company name some source found never becomes the placeholder.
C15_EmptyNeverReplacesValue ==
  /\ Merged => \A f \in ScalarFields : SomeSourceHas(f) => Truthy(mergedData[f])
  /\ Returned =>
       ( SomeSourceHas("companyName")
           => extractedData.companyName # CompanyNamePlaceholder )

\* extractFromContent has returned.
ContentExtracted == pc \in {"merge", "classify", "clean", "score", "extracted", "generated"}

\* The part of an email address before the '@'.
LocalPart(email) ==
  IF \E i \in 1..Len(email) : email[i] = "@"
  THEN SubSeq(email, 1, (CHOOSE i \in 1..Len(email) :
                           email[i] = "@" /\ \A k \in 1..(i - 1) : email[k] # "@") - 1)
  ELSE email

\* Not at gmail, yahoo or hotmail, and a contact word in the local part.
IsContactAddress(email) ==
  /\ \A domain \in { <<"@","g","m","a","i","l",".">>, <<"@","y","a","h","o","o",".">>, <<"@","h","o","t","m","a","i","l",".">> } : ~Includes(email, domain)
  /\ \E word \in { <<"c","o","n","t","a","c","t">>, <<"i","n","f","o">>, <<"s","u","p","p","o","r","t">>, <<"s","a","l","e","s">> } :
       Includes(LocalPart(email), word)

\* C16: the text extractor's email is the first email match that is not at a
\* consumer webmail domain and whose local part contains contact, info,
\* support or sales; an address whose local part has none is not selected.
C16_EmailChosenByLocalPart ==
  ContentExtracted =>
    LET candidates == SelectSeq(scrapedContent.text.emails, IsContactAddress)
    IN contentData.contactInfo.email =
         (IF candidates # <<>> THEN candidates[1] ELSE Absent)

\* The host of a url: what follows '://' up to the next '/'.
AfterScheme(url) ==
  IF \E i \in 1..(Len(url) - 2) : SubSeq(url, i, i + 2) = <<":","/","/">>
  THEN SubSeq(url, (CHOOSE i \in 1..(Len(url) - 2) :
                      /\ SubSeq(url, i, i + 2) = <<":","/","/">>
                      /\ \A k \in 1..(i - 1) : SubSeq(url, k, k + 2) # <<":","/","/">>) + 3,
              Len(url))
  ELSE url

HostOf(url) ==
  LET rest == AfterScheme(url)
  IN IF \E i \in 1..Len(rest) : rest[i] = "/"
     THEN SubSeq(rest, 1, (CHOOSE i \in 1..Len(rest) :
                             rest[i] = "/" /\ \A k \in 1..(i - 1) : rest[k] # "/") - 1)
     ELSE rest

\* The host is the domain or one of its subdomains.
InDomain(host, domain) ==
  \/ host = domain
  \/ /\ Len(host) > Len(domain)
     /\ SubSeq(host, Len(host) - Len(domain), Len(host)) = <<".">> \o domain

\* The platforms the table gives the url's domain (none: not in the table).
PlatformsOfDomain(url) ==
  { platforms[i].platform :
      i \in { k \in 1..Len(platforms) : InDomain(HostOf(url), platforms[k].domain) } }

\* C17: a sameAs url is entered under platform p exactly when its domain is
\* one the table maps to p; a url whose domain is not in the table (such as
\* dropbox.com, which only contains x.com) adds no entry.
C17_SocialMediaByDomain ==
  \A p \in PlatformNames :
    structuredData.contactInfo.socialMedia.links[p] # Absent =>
      p \in PlatformsOfDomain(structuredData.contactInfo.socialMedia.links[p])

\* The record has a sameAs list with a url for the platform.
SuppliesPlatform(jsonLd, p) ==
  /\ jsonLd.sameAs.shape = "array"
  /\ \E i \in 1..Len(jsonLd.sameAs.items) :
       identifySocialPlatform(jsonLd.sameAs.items[i]) = p

\* C18: social-media entries accumulate over the records: an entry from an
\* earlier record is still there after a later record is processed, unless
\* that record supplies a url for the same platform.
C18_SocialMediaAccumulates ==
  [][ ( pc = "structured" /\ pc' = "structured" /\ index' = index + 1 ) =>
        \A p \in PlatformNames :
          ( /\ structuredData.contactInfo.socialMedia.links[p] # Absent
            /\ ~SuppliesPlatform(scrapedContent.jsonLd[index], p) )
          => structuredData'.contactInfo.socialMedia.links[p]
               = structuredData.contactInfo.socialMedia.links[p] ]_vars

\* What a record gives for a field of the structured profile: Organization-like
\* records give name, description and slogan, and email and telephone of
\* their contact point (a single one, or the first of a list).
Supplied(jsonLd, f) ==
  IF jsonLd.isNull \/ jsonLd.type \notin OrganizationTypes THEN Undefined
  ELSE IF f = "companyName" THEN jsonLd.name
  ELSE IF f = "description" THEN jsonLd.description
  ELSE IF f = "tagline" THEN jsonLd.slogan
  ELSE IF jsonLd.contactPoint.items = <<>> THEN Undefined
  ELSE IF f = "email" THEN jsonLd.contactPoint.items[1].email
  ELSE jsonLd.contactPoint.items[1].telephone

\* The value of the last of the first n records that supplies a non-empty one.
RECURSIVE LastSupplied(_, _, _)
LastSupplied(records, n, f) ==
  IF n = 0 THEN Undefined
  ELSE IF Truthy(Supplied(records[n], f)) THEN Supplied(records[n], f)
  ELSE LastSupplied(records, n - 1, f)

\* C19: after the structured extractor has processed records in order, each
\* of companyName, description, tagline, contact email and phone is the value
\* of the last processed record that supplies a non-empty one; a record that
\* does not supply the field leaves the earlier value.
C19_LastSupplyingRecordWins ==
  pc # "scoring" =>
    LET n == index - 1
    IN /\ \A f \in {"companyName", "description", "tagline"} :
            structuredData[f] = LastSupplied(scrapedContent.jsonLd, n, f)
       /\ Read(structuredData.contactInfo.email)
            = LastSupplied(scrapedContent.jsonLd, n, "email")
       /\ Read(structuredData.contactInfo.phone)
            = LastSupplied(scrapedContent.jsonLd, n, "phone")

\* Two Organization-like records were processed: the second has no name and
\* no email but a description and a telephone of its own.
C19_Witness ==
  /\ pc = "meta"
  /\ Len(scrapedContent.jsonLd) = 2
  /\ Truthy(Supplied(scrapedContent.jsonLd[1], "companyName"))
  /\ Truthy(Supplied(scrapedContent.jsonLd[1], "email"))
  /\ Truthy(Supplied(scrapedContent.jsonLd[1], "phone"))
  /\ scrapedContent.jsonLd[2].type \in OrganizationTypes
  /\ ~Truthy(Supplied(scrapedContent.jsonLd[2], "companyName"))
  /\ ~Truthy(Supplied(scrapedContent.jsonLd[2], "email"))
  /\ Truthy(Supplied(scrapedContent.jsonLd[2], "phone"))
  /\ structuredData.companyName = scrapedContent.jsonLd[1].name
  /\ structuredData.contactInfo.phone = scrapedContent.jsonLd[2].contactPoint.items[1].telephone

\* U+2014 and U+002D, each one character of a team string.
EmDash == <<"EM DASH">>
HyphenMinus == <<"-">>

\* The people of the first n records, employees before founders.
RECURSIVE PeopleOf(_, _)
PeopleOf(records, n) ==
  IF n = 0 THEN <<>>
  ELSE PeopleOf(records, n - 1)
         \o records[n].employee.items \o records[n].founder.items

\* name, space, dash, space, role: the job title if present, else the role if
\* present, else 'Team Member'.
TeamForm(dash, person) ==
  person.name \o <<" ">> \o dash \o <<" ">>
    \o ( IF Truthy(person.jobTitle) THEN person.jobTitle
         ELSE IF Truthy(person.role) THEN person.role
         ELSE <<"T","e","a","m"," ","M","e","m","b","e","r">> )

\* The team strings of the first n records written with the given dash.
TeamFormsOf(dash, records, n) ==
  LET named == SelectSeq(PeopleOf(records, n), LAMBDA person : Truthy(person.name))
  IN [i \in 1..Len(named) |-> TeamForm(dash, named[i])]

MentionsApiWord(s) ==
  \E word \in { <<"a","p","i">>, <<"d","e","v","e","l","o","p","e","r">>, <<"d","o","c","s">> } : Includes(ToLowerCase(s), word)

\* C21: the API-documentation flag is set exactly when the markup has an
\* anchor whose target or whose label mentions api, developer or docs,
\* case-insensitively (a label alone is enough), and the flag holds a fixed
\* text, not the matched one.
C21_ApiDocsByTargetOrLabel ==
  ContentExtracted =>
    /\ ( contentData.apiDocs # Undefined
           <=> \E i \in 1..Len(scrapedContent.text.anchors) :
                 \/ MentionsApiWord(scrapedContent.text.anchors[i].href)
                 \/ MentionsApiWord(scrapedContent.text.anchors[i].label) )
    /\ contentData.apiDocs \in { Undefined, <<"A","P","I"," ","d","o","c","u","m","e","n","t","a","t","i","o","n"," ","a","v","a","i","l","a","b","l","e">> }

\* The subsequence of the strings that have no denylist term in them.
RECURSIVE WithoutDenylisted(_)
WithoutDenylisted(list) ==
  IF list = <<>> THEN <<>>
  ELSE IF HasDenylistTerm(Head(list)) THEN WithoutDenylisted(Tail(list))
  ELSE <<Head(list)>> \o WithoutDenylisted(Tail(list))

\* The candidate entries of the services span: split on , and ; then trimmed.
Candidates(span) == [i \in 1..Len(Split(span)) |-> Trim(Split(span)[i])]

\* The list cleanExtractedData hands to its policy filter.
Deduplicated(list) == SelectSeq(SetSpread(list), LAMBDA s : s # <<>>)

TitleCleaned ==
  /\ pc \in {"content", "merge", "classify", "clean", "score", "extracted", "generated"}
  /\ FirstTruthy(<< scrapedContent.metaTags.ogSiteName,
                    scrapedContent.metaTags.applicationName,
                    scrapedContent.metaTags.title,
                    scrapedContent.metaTags.ogTitle >>) # Undefined

\* C23: the name cleaned from a meta title has no hyphen and no pipe in it
\* (everything from the first one onward was removed) and no leading or
\* trailing white space.
C23_CleanedNameHasNoSeparator ==
  TitleCleaned =>
    /\ \A i \in 1..Len(metaData.companyName) : metaData.companyName[i] \notin {"-", "|"}
    /\ metaData.companyName = Trim(metaData.companyName)

\* C24: the profile extractData returns holds in schemaData the records of
\* the input jsonLd sequence, the same records in the same order, none
\* added, removed or modified.
C24_SchemaDataVerbatim ==
  Returned => extractedData.schemaData = scrapedContent.jsonLd

\* A returned profile for an input with the same record given twice.
C24_Witness ==
  /\ Returned
  /\ Len(scrapedContent.jsonLd) = 2
  /\ scrapedContent.jsonLd[1] = scrapedContent.jsonLd[2]
  /\ Len(extractedData.schemaData) = 2

\* extractFromStructuredData run on its own from the first record to the last.
RECURSIVE ExtractRecords(_, _)
ExtractRecords(extracted, records) ==
  IF records = <<>> THEN extracted
  ELSE ExtractRecords(ExtractRecord(extracted, Head(records)), Tail(records))

extractFromStructuredData(jsonLdArray) ==
  [ExtractRecords(StructuredInitial, jsonLdArray) EXCEPT
     !.keys = @ \cup {"schemaData"},
     !.schemaData = jsonLdArray]

\* C25: the three source extractors share no mutable state: in whatever
\* order and interleaving they run on a bundle, and whatever ran before,
\* each returns the partial profile it returns when run on its own, and the
\* merged profile is the merge of these three.
C25_ExtractorsIndependent ==
  /\ StructuredReturned
       => structuredData = extractFromStructuredData(scrapedContent.jsonLd)
  /\ MetaReturned => metaData = extractFromMetaTags(scrapedContent.metaTags)
  /\ ContentReturned => contentData = extractFromContent(scrapedContent.text)
  /\ pc = "classify"
       => mergedData = mergeExtractedData(
                         << extractFromStructuredData(scrapedContent.jsonLd),
                            extractFromMetaTags(scrapedContent.metaTags),
                            extractFromContent(scrapedContent.text) >>)

\* In a second run the text and the meta extractor have returned while the
\* structured extractor is in the middle of its loop.
C25_Witness ==
  /\ pc = "extractors"
  /\ Len(history) >= 1
  /\ index = 2
  /\ Len(scrapedContent.jsonLd) = 2
  /\ ContentReturned /\ MetaReturned /\ ~StructuredReturned
  /\ Defined(contentData.contactInfo.email)

\* C26: when generateLLMSText fails because the content exceeds MAX_FILE_SIZE
\* the generate endpoint answers 413, and when the generation step fails with
\* an API-key, rate-limit or timeout error it answers 401, 429 or 504.
C26_GenerationErrorsHaveOwnStatus ==
  ( pc = "generated" /\ generationError # Undefined ) =>
    /\ Includes(generationError, <<"e","x","c","e","e","d","s"," ","m","a","x","i","m","u","m"," ","f","i","l","e"," ","s","i","z","e">>) => generateStatus = 413
    /\ Includes(generationError, <<"A","P","I"," ","k","e","y">>) => generateStatus = 401
    /\ Includes(generationError, <<"r","a","t","e"," ","l","i","m","i","t">>) => generateStatus = 429
    /\ Includes(generationError, <<"t","i","m","e","o","u","t">>) => generateStatus = 504

\* The calls of handleGenerate that have not finished.
InFlight == { r \in 1..Len(runs) : runs[r].awaiting # "none" }

\* C27: in every run the steps are requested in the order validate, scrape,
\* extract, generate, each only after all earlier ones of the run reported
\* success; the stage is 'complete' only after generate reported success;
\* and when a step fails the stage becomes 'error' at once and the run
\* requests no later step.
C27_StepsInOrderUntilFailure ==
  /\ [] ( /\ \A r \in 1..Len(runs) :
               /\ Len(runs[r].requested) <= Len(Steps)
               /\ \A k \in 1..Len(runs[r].requested) :
                    /\ runs[r].requested[k] = Steps[k]
                    /\ \A j \in 1..(k - 1) :
                         j <= Len(runs[r].responses) /\ runs[r].responses[j]
               /\ \A k \in 1..Len(runs[r].responses) :
                    ~runs[r].responses[k] =>
                       Len(runs[r].requested) = k /\ runs[r].awaiting = "none"
          /\ stage = "complete" =>
               /\ runs # <<>>
               /\ runs[Len(runs)].responses = << TRUE, TRUE, TRUE, TRUE >> )
  /\ [][ \A r \in 1..Len(runs) :
           ( /\ Len(runs'[r].responses) = Len(runs[r].responses) + 1
             /\ ~runs'[r].responses[Len(runs'[r].responses)] )
           => stage' = "error" ]_vars

\* One run went through all four steps, another one failed at its third.
C27_Witness ==
  /\ Len(runs) = 2
  /\ runs[1].responses = << TRUE, TRUE, FALSE >>
  /\ runs[2].responses = << TRUE, TRUE, TRUE, TRUE >>
  /\ stage = "complete"

\* C30: at most one run is in flight at any time, a run starts only while
\* the stage is idle, complete or error, and the result is non-null only
\* while the stage is 'complete'.
C30_OneRunInFlight ==
  /\ [] ( /\ Cardinality(InFlight) <= 1
          /\ result # "null" => stage = "complete" )
  /\ [][ Len(runs') > Len(runs) => stage \in {"idle", "complete", "error"} ]_vars

\* A third run is in flight, started after a failed and a completed one.
C30_Witness ==
  /\ Len(runs) = 3
  /\ InFlight = {3}
  /\ runs[3].awaiting = "extract"
  /\ \E r \in {1, 2} : runs[r].responses = << TRUE, TRUE, TRUE, TRUE >>
  /\ \E r \in {1, 2} : \E k \in 1..Len(runs[r].responses) : ~runs[r].responses[k]

\* C28: handling one scrape request launches the Playwright browser at most
\* once; the short-content retry is not made when Playwright was already
\* used, also when the first call fell back to it after Cheerio failed.
C28_BrowserLaunchedAtMostOnce == scrape.launches <= 1

\* A string property that is set and not ''.
NonEmptyString(v) == v # Undefined /\ v # Absent /\ v # <<>>

\* C29: every profile extractData returns has a non-empty companyName and a
\* non-empty description, the placeholders 'Company Name' and 'No description
\* available.' standing in when the merged profile has none, and a field that
\* holds its placeholder adds nothing to the quality score.
C29_PlaceholdersFillAndScoreZero ==
  /\ Returned =>
       /\ NonEmptyString(extractedData.companyName)
       /\ NonEmptyString(extractedData.description)
       /\ ~NonEmptyString(mergedData.companyName)
            => extractedData.companyName = <<"C","o","m","p","a","n","y"," ","N","a","m","e">>
       /\ ~NonEmptyString(mergedData.description)
            => extractedData.description = <<"N","o"," ","d","e","s","c","r","i","p","t","i","o","n"," ","a","v","a","i","l","a","b","l","e",".">>
  /\ pc \in {"extracted", "generated"} =>
       /\ extractedData.companyName = <<"C","o","m","p","a","n","y"," ","N","a","m","e">>
            => qualityScore = ExpectedScore([extractedData EXCEPT !.companyName = Undefined])
       /\ extractedData.description = <<"N","o"," ","d","e","s","c","r","i","p","t","i","o","n"," ","a","v","a","i","l","a","b","l","e",".">>
            => qualityScore = ExpectedScore([extractedData EXCEPT !.description = Undefined])

\* A scored profile whose name is the placeholder and whose description is
\* not: the description's points are in the score, none for the name.
C29_Witness ==
  /\ pc = "extracted"
  /\ extractedData.companyName = <<"C","o","m","p","a","n","y"," ","N","a","m","e">>
  /\ ~NonEmptyString(mergedData.companyName)
  /\ extractedData.description # <<"N","o"," ","d","e","s","c","r","i","p","t","i","o","n"," ","a","v","a","i","l","a","b","l","e",".">>
  /\ extractedData.services = <<>> /\ extractedData.products = <<>>
  /\ qualityScore < maxScore
  /\ qualityScore >= 10

====
